---- MODULE Spec2Model ----
(***************************************************************************)
(* A model of the media organizer: the filename-semantics engine of       *)
(* organize.py (normalizer, name/code/variant extractor, product-code     *)
(* consolidator, collision resolver, folder materializer) and the         *)
(* in-progress flags of the web front-end in main.py.                      *)
(*                                                                         *)
(* A string is a sequence of one-character strings: "W-1" is              *)
(* <<"W", "-", "1">>.  A path is a sequence of such strings.               *)
(***************************************************************************)
EXTENDS Integers, Sequences, FiniteSets, TLC

(***************************************************************************)
(* Characters                                                              *)
(***************************************************************************)
UpperSeq == <<"A","B","C","D","E","F","G","H","I","J","K","L","M",
              "N","O","P","Q","R","S","T","U","V","W","X","Y","Z">>
LowerSeq == <<"a","b","c","d","e","f","g","h","i","j","k","l","m",
              "n","o","p","q","r","s","t","u","v","w","x","y","z">>
DigitSeq == <<"0","1","2","3","4","5","6","7","8","9">>

UpperSet == {UpperSeq[i] : i \in DOMAIN UpperSeq}
LowerSet == {LowerSeq[i] : i \in DOMAIN LowerSeq}
DigitSet == {DigitSeq[i] : i \in DOMAIN DigitSeq}

Pos(seq, c) == CHOOSE i \in DOMAIN seq : seq[i] = c

IsUpper(c) == c \in UpperSet
IsLower(c) == c \in LowerSet
\* [a-zA-Z]
IsAlpha(c) == IsUpper(c) \/ IsLower(c)
\* \d
IsDigit(c) == c \in DigitSet
\* [A-Za-z0-9]
IsAlnum(c) == IsAlpha(c) \/ IsDigit(c)
\* [-_\s]
IsSep(c) == c \in {"-", "_", " "}
\* \w
IsWord(c) == IsAlnum(c) \/ c = "_"

\* str.lower() on one character
ToLower(c) == IF IsUpper(c) THEN LowerSeq[Pos(UpperSeq, c)] ELSE c
\* str.upper() on one character
ToUpper(c) == IF IsLower(c) THEN UpperSeq[Pos(LowerSeq, c)] ELSE c

\* ord(c): the code point, which orders Python strings
Ord(c) == IF c = " " THEN 32
          ELSE IF c = "#" THEN 35
          ELSE IF c = "-" THEN 45
          ELSE IF c = "." THEN 46
          ELSE IF IsDigit(c) THEN 47 + Pos(DigitSeq, c)
          ELSE IF IsUpper(c) THEN 64 + Pos(UpperSeq, c)
          ELSE IF c = "_" THEN 95
          ELSE 96 + Pos(LowerSeq, c)

(***************************************************************************)
(* Strings                                                                 *)
(***************************************************************************)
\* Python's None; no string of the program equals it
None == <<"None">>

\* the member of a set of one value; Only({e(x) : x \in {v}}) is e(v), with v
\* computed once
Only(S) == CHOOSE x \in S : TRUE

\* the k-th smallest member of a set of numbers
KthSmallest(S, k) == CHOOSE i \in S : Cardinality({j \in S : j < i}) = k - 1

Lower(s) == [i \in 1..Len(s) |-> ToLower(s[i])]
Prefix(s, n) == SubSeq(s, 1, n)
Suffix(s, n) == SubSeq(s, n, Len(s))
StartsWith(s, p) == Len(p) <= Len(s) /\ Prefix(s, Len(p)) = p
EndsWith(s, p) == Len(p) <= Len(s) /\ Suffix(s, Len(s) - Len(p) + 1) = p
Contains(s, c) == \E i \in 1..Len(s) : s[i] = c
HasDigit(s) == \E i \in 1..Len(s) : IsDigit(s[i])
HasAlpha(s) == \E i \in 1..Len(s) : IsAlpha(s[i])
AllDigits(s) == Len(s) > 0 /\ \A i \in 1..Len(s) : IsDigit(s[i])
AllAlpha(s) == Len(s) > 0 /\ \A i \in 1..Len(s) : IsAlpha(s[i])

\* the strings of length <= n over the characters cs
RECURSIVE StringsUpTo(_, _)
StringsUpTo(cs, n) ==
    IF n = 0 THEN {<<>>}
    ELSE LET shorter == StringsUpTo(cs, n - 1)
         IN  shorter \cup {Append(s, c) : s \in shorter, c \in cs}

\* sep.join(parts)
RECURSIVE Join(_, _)
Join(parts, sep) ==
    IF Len(parts) = 0 THEN <<>>
    ELSE IF Len(parts) = 1 THEN parts[1]
    ELSE parts[1] \o sep \o Join(Tail(parts), sep)

\* a < b in Python's string order
RECURSIVE StrLess(_, _)
StrLess(a, b) ==
    IF Len(b) = 0 THEN FALSE
    ELSE IF Len(a) = 0 THEN TRUE
    ELSE IF a[1] # b[1] THEN Ord(a[1]) < Ord(b[1])
    ELSE StrLess(Tail(a), Tail(b))

\* str(n) for 0 <= n <= 99
Str(n) == IF n < 10 THEN <<DigitSeq[n + 1]>>
          ELSE <<DigitSeq[(n \div 10) + 1], DigitSeq[(n % 10) + 1]>>

\* os.path.splitext: the extension starts at the last dot, unless only dots
\* come before it
splitext(p) ==
    LET dots == {i \in 1..Len(p) : p[i] = "."}
        dotIndex == IF dots = {} THEN 0
                    ELSE CHOOSE i \in dots : \A j \in dots : j <= i
    IN  IF dotIndex > 0 /\ \E i \in 1..(dotIndex - 1) : p[i] # "."
        THEN [base |-> Prefix(p, dotIndex - 1), ext |-> Suffix(p, dotIndex)]
        ELSE [base |-> p, ext |-> <<>>]

\* re.search(r'_v\d+$', s).start(), 0 when there is no match
VersionStart(s) ==
    LET starts == {i \in 1..(Len(s) - 2) :
                      /\ s[i] = "_"
                      /\ s[i + 1] = "v"
                      /\ \A j \in (i + 2)..Len(s) : IsDigit(s[j])}
    IN  IF starts = {} THEN 0 ELSE CHOOSE i \in starts : TRUE

\* s without its trailing _v<digits>
StripVersion(s) ==
    IF VersionStart(s) = 0 THEN s ELSE Prefix(s, VersionStart(s) - 1)

\* the trailing _v<digits> of s, or the empty string
VersionSuffix(s) ==
    IF VersionStart(s) = 0 THEN <<>> ELSE Suffix(s, VersionStart(s))

(***************************************************************************)
(* 4.1 Normalizer                                                          *)
(***************************************************************************)
normalize_filename(filename) ==
    LET sp == splitext(filename)
        basename == StripVersion(sp.base)
        normalized == Lower(SelectSeq(basename, LAMBDA c : ~IsSep(c)))
    IN  normalized \o Lower(sp.ext)

convert_alpha_to_numeric_suffix(filename) ==
    LET sp == splitext(filename)
        version_suffix == VersionSuffix(sp.base)
        basename == StripVersion(sp.base)
    IN  IF Len(basename) > 0 /\ IsAlpha(basename[Len(basename)])
        THEN LET alpha_char == ToUpper(basename[Len(basename)])
                 numeric_value == Pos(UpperSeq, alpha_char)
             IN  Prefix(basename, Len(basename) - 1) \o Str(numeric_value)
                    \o version_suffix \o sp.ext
        ELSE basename \o version_suffix \o sp.ext

normalize_filename_with_alpha_numeric(filename) ==
    normalize_filename(convert_alpha_to_numeric_suffix(filename))

\* a comparison of the standard keys alone
SameStandardKey(new, existing) ==
    normalize_filename(new) = normalize_filename(existing)

\* the four-way comparison of find_existing_file_variant
SameAsset(new, existing) ==
    LET normalized_new == normalize_filename(new)
        alpha_numeric_new == normalize_filename_with_alpha_numeric(new)
        normalized_existing == normalize_filename(existing)
        alpha_numeric_existing == normalize_filename_with_alpha_numeric(existing)
    IN  \/ normalized_new = normalized_existing
        \/ alpha_numeric_new = alpha_numeric_existing
        \/ normalized_new = alpha_numeric_existing
        \/ alpha_numeric_new = normalized_existing

(***************************************************************************)
(* 4.2 Name/Code/Variant Extractor                                         *)
(***************************************************************************)
\* a cleaning that drops the dots as well
CleanNoDot(s) == SelectSeq(s, LAMBDA c : IsWord(c) \/ c = " " \/ c = "-")

\* re.sub(r'[^\w\s\.-]', '', basename)
Clean(s) == SelectSeq(s, LAMBDA c : IsWord(c) \/ c = " " \/ c = "." \/ c = "-")

\* [p for p in re.split(r'[-_\s]', cleaned) if p]: the maximal runs of
\* characters that are no separators, in order
Tokens(s) ==
    LET starts == {i \in 1..Len(s) : ~IsSep(s[i]) /\ (i = 1 \/ IsSep(s[i - 1]))}
        EndOf(i) == CHOOSE j \in i..Len(s) :
                        /\ \A k \in i..j : ~IsSep(s[k])
                        /\ (j = Len(s) \/ IsSep(s[j + 1]))
    IN  [k \in 1..Cardinality(starts) |->
            Only({SubSeq(s, i, EndOf(i)) : i \in {KthSmallest(starts, k)}})]

\* a variant test that also takes a token of two characters
is_variant_code_or_pair(word) ==
    Len(word) \in {1, 2} /\ \A i \in 1..Len(word) : IsAlnum(word[i])

is_variant_code(word) == Len(word) = 1 /\ IsAlnum(word[1])

\* re.search(r'\d+\.\d+', part)
HasTechVersion(part) ==
    \E i \in 1..(Len(part) - 2) :
        IsDigit(part[i]) /\ part[i + 1] = "." /\ IsDigit(part[i + 2])

\* re.match(r'^([a-zA-Z]+)(\d+.*)$', part): the length of group 1, 0 when
\* there is no match
BrandModelSplit(part) ==
    LET run == {k \in 1..Len(part) : \A i \in 1..k : IsAlpha(part[i])}
        k == IF run = {} THEN 0 ELSE CHOOSE m \in run : \A n \in run : n <= m
    IN  IF k > 0 /\ k < Len(part) /\ IsDigit(part[k + 1]) THEN k ELSE 0

\* a special case that needs a third token of two digits or more
IsSpecialCaseLongThird(parts) ==
    /\ Len(parts) >= 3
    /\ AllAlpha(parts[1])
    /\ HasAlpha(parts[2])
    /\ HasDigit(parts[2])
    /\ AllDigits(parts[3])
    /\ Len(parts[3]) >= 2

\* the special three-token case: brand, alphanumeric code, digits
IsSpecialCase(parts) ==
    /\ Len(parts) >= 3
    /\ AllAlpha(parts[1])
    /\ HasAlpha(parts[2])
    /\ HasDigit(parts[2])
    /\ AllDigits(parts[3])

\* the split at a token holding a dotted version number
TechSplit(parts, idx) ==
    IF idx = 1
    THEN [name_parts |-> Prefix(parts, 1), code_parts |-> Tail(parts)]
    ELSE [name_parts |-> Prefix(parts, idx - 1), code_parts |-> Suffix(parts, idx)]

OnePart(parts) ==
    LET single_part == parts[1]
        k == BrandModelSplit(single_part)
    IN  IF k > 0
        THEN [name_parts |-> <<Prefix(single_part, k)>>,
              code_parts |-> <<Suffix(single_part, k + 1)>>]
        ELSE [name_parts |-> <<single_part>>, code_parts |-> <<>>]

\* two tokens taken together as the name
TwoPartsAsName(parts) == [name_parts |-> parts, code_parts |-> <<>>]

TwoParts(parts) ==
    LET first_part == parts[1]
        second_part == parts[2]
        k == BrandModelSplit(first_part)
    IN  IF k > 0
        THEN [name_parts |-> <<Prefix(first_part, k)>>,
              code_parts |-> <<Suffix(first_part, k + 1), second_part>>]
        ELSE IF AllAlpha(first_part) /\ HasDigit(second_part)
        THEN [name_parts |-> <<first_part>>, code_parts |-> <<second_part>>]
        ELSE IF Len(second_part) >= 2
        THEN [name_parts |-> <<first_part>>, code_parts |-> <<second_part>>]
        ELSE [name_parts |-> parts, code_parts |-> <<>>]

ManyParts(parts) ==
    IF AllAlpha(parts[1])
    THEN [name_parts |-> <<parts[1]>>, code_parts |-> Tail(parts)]
    ELSE LET digs == {i \in 2..Len(parts) : HasDigit(parts[i])}
             product_code_start ==
                 IF digs = {} THEN 2
                 ELSE CHOOSE i \in digs : \A j \in digs : i <= j
         IN  [name_parts |-> Prefix(parts, product_code_start - 1),
              code_parts |-> Suffix(parts, product_code_start)]

\* re.sub(rf'^{name_part}[-_\s]*', '', s, 1)
DropNamePrefix(s, name_part) ==
    IF ~StartsWith(s, name_part) THEN s
    ELSE LET rest == Suffix(s, Len(name_part) + 1)
             nonsep == {i \in 1..Len(rest) : ~IsSep(rest[i])}
         IN  IF nonsep = {} THEN <<>>
             ELSE Suffix(rest, CHOOSE i \in nonsep : \A j \in nonsep : i <= j)

RECURSIVE DropNameParts(_, _)
DropNameParts(s, name_parts) ==
    IF name_parts = <<>> THEN s
    ELSE DropNameParts(DropNamePrefix(s, name_parts[1]), Tail(name_parts))

\* re.sub(rf'[-_\s]*{variant}$', '', s)
DropVariantSuffix(s, variant) ==
    IF ~EndsWith(s, variant) THEN s
    ELSE LET front == Prefix(s, Len(s) - Len(variant))
             nonsep == {i \in 1..Len(front) : ~IsSep(front[i])}
         IN  IF nonsep = {} THEN <<>>
             ELSE Prefix(front, CHOOSE i \in nonsep : \A j \in nonsep : j <= i)

\* the product code put together from its tokens
AssembleCode(basename, name_parts, code_parts, variant) ==
    IF code_parts = <<>> THEN None
    ELSE IF Len(code_parts) = 1 THEN code_parts[1]
    ELSE LET stripped == DropNameParts(basename, name_parts)
             code_portion == IF variant # None
                             THEN DropVariantSuffix(stripped, variant)
                             ELSE stripped
         IN  IF Contains(code_portion, "_") /\ ~Contains(code_portion, "-")
             THEN Join(code_parts, <<"_">>)
             ELSE Join(code_parts, <<"-">>)

\* Python's "not x" for a string or None
Falsy(x) == x = None \/ x = <<>>

\* lines 279-288: a code that looks like a plain word becomes the brand,
\* and the first token is the brand of last resort
PostCheck(name0, code0, variant, parts) ==
    Only({
        LET name == nc[1]
            code == nc[2]
            swap == Falsy(name) /\ ~Falsy(code) /\ ~HasDigit(code) /\ ~Contains(code, "-")
            name1 == IF swap THEN code ELSE name
            code1 == IF swap THEN None ELSE code
            name2 == IF Falsy(name1) /\ Falsy(code1)
                     THEN (IF parts # <<>> THEN parts[1] ELSE None)
                     ELSE name1
        IN  [name |-> name2, code |-> code1, variant |-> variant]
        : nc \in {<<name0, code0>>}})

\* the cascade after the special case: variant, dotted version, arity
GeneralCase(basename, all_parts) ==
    LET has_variant == Len(all_parts) > 1 /\ is_variant_code(all_parts[Len(all_parts)])
        variant == IF has_variant THEN all_parts[Len(all_parts)] ELSE None
        parts == IF has_variant THEN Prefix(all_parts, Len(all_parts) - 1)
                 ELSE all_parts
        techs == {i \in 1..Len(parts) : HasTechVersion(parts[i])}
        tech_with_version_idx ==
            IF techs = {} THEN 0 ELSE CHOOSE i \in techs : \A j \in techs : i <= j
        split == IF tech_with_version_idx # 0 THEN TechSplit(parts, tech_with_version_idx)
                 ELSE IF Len(parts) = 1 THEN OnePart(parts)
                 ELSE IF Len(parts) = 2 THEN TwoParts(parts)
                 ELSE ManyParts(parts)
    IN  Only({
            PostCheck(IF sp.name_parts # <<>> THEN Join(sp.name_parts, <<" ">>)
                      ELSE None,
                      AssembleCode(basename, sp.name_parts, sp.code_parts, variant),
                      variant, parts)
            : sp \in {split}})

extract_name_code_variant(original_basename) ==
    Only({
        Only({
            IF all_parts = <<>>
            THEN [name |-> None, code |-> None, variant |-> None]
            ELSE IF IsSpecialCase(all_parts)
            THEN [name |-> all_parts[1],
                  code |-> Join(Tail(all_parts), <<"-">>),
                  variant |-> None]
            ELSE GeneralCase(basename, all_parts)
            : all_parts \in {Tokens(Clean(basename))}})
        : basename \in {StripVersion(original_basename)}})

\* extract_basename_and_suffix(filename)[0]: the stem without its trailing
\* letter, digits or letter+digits suffix
extract_basename_and_suffix(filename) ==
    LET basename_no_ext == StripVersion(splitext(filename).base)
        n == Len(basename_no_ext)
        IsSepAt(i) == i >= 1 /\ basename_no_ext[i] \in {"-", "_"}
        \* [-_]([A-Za-z])$
        single_letter == n >= 2 /\ IsAlpha(basename_no_ext[n]) /\ IsSepAt(n - 1)
        \* [-_](\d+)$
        digit_starts == {i \in 1..(n - 1) :
                            /\ IsSepAt(i)
                            /\ \A j \in (i + 1)..n : IsDigit(basename_no_ext[j])}
        \* [-_]([A-Za-z]\d+)$
        letter_digit_starts == {i \in 1..(n - 2) :
                                   /\ IsSepAt(i)
                                   /\ IsAlpha(basename_no_ext[i + 1])
                                   /\ \A j \in (i + 2)..n : IsDigit(basename_no_ext[j])}
        cut == IF single_letter THEN n - 1
               ELSE IF digit_starts # {} THEN CHOOSE i \in digit_starts : TRUE
               ELSE IF letter_digit_starts # {} THEN CHOOSE i \in letter_digit_starts : TRUE
               ELSE 0
    IN  IF cut = 0 THEN [basename |-> basename_no_ext, suffix |-> None]
        ELSE [basename |-> Prefix(basename_no_ext, cut - 1),
              suffix |-> Suffix(basename_no_ext, cut + 1)]

\* get_file_category: the category folders under the product folder
S_img == <<"i", "m", "g">>
S_webp == <<".", "w", "e", "b", "p">>
S_jpg == <<".", "j", "p", "g">>
S_jpeg == <<".", "j", "p", "e", "g">>
S_png == <<".", "p", "n", "g">>
S_mov == <<".", "m", "o", "v">>
S_mp4 == <<".", "m", "p", "4">>
D_Unedited == <<"U", "n", "e", "d", "i", "t", "e", "d">>
D_WEBP == <<"W", "E", "B", "P">>
D_JPEG == <<"J", "P", "E", "G">>
D_Video == <<"V", "i", "d", "e", "o">>
D_UneditedVideo == <<"U", "n", "e", "d", "i", "t", "e", "d", " ", "v", "i", "d", "e", "o">>
D_EditedVideo == <<"E", "d", "i", "t", "e", "d", " ", "v", "i", "d", "e", "o">>
D_OldImages == <<"O", "l", "d", " ", "I", "m", "a", "g", "e", "s">>

\* a categorizer that looks at the extension before it looks at the prefix
get_file_category_by_extension_first(filename) ==
    LET ext == Lower(splitext(filename).ext)
        basename == Lower(filename)
    IN  IF ext = S_webp THEN <<D_WEBP>>
        ELSE IF ext \in {S_jpg, S_jpeg, S_png} THEN <<D_JPEG>>
        ELSE IF ext = S_mov THEN <<D_Video, D_UneditedVideo>>
        ELSE IF ext = S_mp4 THEN <<D_Video, D_EditedVideo>>
        ELSE IF StartsWith(basename, S_img) THEN <<D_Unedited>>
        ELSE <<>>

\* the category as the list of its path parts (file_category.split('/')),
\* the empty list for the category None
get_file_category(filename) ==
    LET ext == Lower(splitext(filename).ext)
        basename == Lower(filename)
    IN  IF StartsWith(basename, S_img) THEN <<D_Unedited>>
        ELSE IF ext = S_webp THEN <<D_WEBP>>
        ELSE IF ext \in {S_jpg, S_jpeg, S_png} THEN <<D_JPEG>>
        ELSE IF ext = S_mov THEN <<D_Video, D_UneditedVideo>>
        ELSE IF ext = S_mp4 THEN <<D_Video, D_EditedVideo>>
        ELSE <<>>

(***************************************************************************)
(* 4.3 Code Consolidator                                                   *)
(***************************************************************************)
\* the text before the first hyphen as the base
CodeBaseToHyphen(code) ==
    LET hyphens == {i \in 1..Len(code) : code[i] = "-"}
    IN  IF hyphens = {} THEN code
        ELSE Prefix(code, (CHOOSE i \in hyphens : \A j \in hyphens : i <= j) - 1)

\* re.match(r'^([A-Za-z0-9]+)', code).group(1), the empty string when
\* there is no match
CodeBase(code) ==
    LET run == {k \in 1..Len(code) : \A i \in 1..k : IsAlnum(code[i])}
    IN  IF run = {} THEN <<>>
        ELSE Prefix(code, CHOOSE m \in run : \A n \in run : n <= m)

\* sorted(codes, key=lambda x: (len(x), x))[-1]
MostSpecificLatest(codes) ==
    CHOOSE c \in codes :
        \A d \in codes \ {c} :
            Len(c) > Len(d) \/ (Len(c) = Len(d) /\ StrLess(d, c))

\* sorted(codes, key=lambda x: (-len(x), x))[0]
MostSpecific(codes) ==
    CHOOSE c \in codes :
        \A d \in codes \ {c} :
            Len(c) > Len(d) \/ (Len(c) = Len(d) /\ StrLess(c, d))

\* a consolidator that keeps the codes without a base, each for itself
consolidate_every_code(product_codes) ==
    LET code_group(c) == {d \in product_codes : CodeBase(d) = CodeBase(c)}
    IN  [c \in product_codes |->
            IF CodeBase(c) = <<>> \/ Cardinality(code_group(c)) = 1 THEN c
            ELSE MostSpecific(code_group(c))]

\* the mapping code -> representative, over the codes that have a base
consolidate_product_codes(product_codes) ==
    LET grouped == {c \in product_codes : CodeBase(c) # <<>>}
        code_group(c) == {d \in grouped : CodeBase(d) = CodeBase(c)}
    IN  [c \in grouped |->
            IF Cardinality(code_group(c)) = 1 THEN c
            ELSE MostSpecific(code_group(c))]

(***************************************************************************)
(* State                                                                   *)
(***************************************************************************)
VARIABLES
    \* the normalizer applied to one filename, both entry points, and to its
    \* own result
    nf_filename, nf_key, nf_alpha, nf_rekey, nf_pc,
    \* the extractor applied to one stem
    ex_stem, ex_result, ex_pc,
    \* the consolidator applied to one set of product codes
    cp_codes, cp_mapping, cp_pc,
    \* main.py: process_status[type]["running"] and ["message"], the request
    \* handlers and the worker threads they start
    running, message, req, worker,
    \* organize.py on one folder: the files and directories under
    \* webp_folder_path, whether that folder exists, the wall clock, the brand -> filenames map of the
    \* first pass, the files still to place, and the position in the run
    tree, dirs, org_exists, initial, now, faults, brand_files, work, last,
    org_pc, org_result,
    \* split.py on one main folder: the files, with their modification times,
    \* and the directories under it, all_files still to go through, the last
    \* call of move_file_safely, the position in process_files and the
    \* second value it returns
    sp_tree, sp_dirs, sp_initial, sp_queue, sp_faults, sp_last, sp_pc, sp_success,
    \* merge.py: the entry point taken, the position in it, what run_script
    \* returned for the two stages, and the exit value
    pl_mode, pl_pc, pl_split, pl_organize, pl_result,
    \* get_file_category applied to one filename
    gc_filename, gc_category, gc_pc,
    \* organize.py run a second time on the same folder: the files as the
    \* first run left them, in a list that is empty during the first run
    org_first,
    \* transfer.py on one main folder: its files and directories, those it
    \* started with, the main_folders dict in its order, the source subfolders
    \* still to visit, the one whose contents are being moved, folders_to_remove,
    \* the last step, the position in organize_webp_folders and what it returns
    xf_tree, xf_dirs, xf_initial, xf_main, xf_folders, xf_current, xf_remove, xf_faults, xf_last, xf_pc, xf_result

normVars == <<nf_filename, nf_key, nf_alpha, nf_rekey, nf_pc>>
extVars == <<ex_stem, ex_result, ex_pc>>
consVars == <<cp_codes, cp_mapping, cp_pc>>
svcVars == <<running, message, req, worker>>
orgVars == <<tree, dirs, org_exists, initial, now, faults, brand_files, work, last,
             org_pc, org_result>>
splitVars == <<sp_tree, sp_dirs, sp_initial, sp_queue, sp_faults, sp_last, sp_pc,
               sp_success>>
pipeVars == <<pl_mode, pl_pc, pl_split, pl_organize, pl_result>>
catVars == <<gc_filename, gc_category, gc_pc>>
twiceVars == <<org_first>>
xferVars == <<xf_tree, xf_dirs, xf_initial, xf_main, xf_folders, xf_current, xf_remove, xf_faults, xf_last, xf_pc, xf_result>>
vars == <<normVars, extVars, consVars, svcVars, orgVars, splitVars, pipeVars, catVars, twiceVars, xferVars>>

\* what each component leaves alone
normOthers == <<extVars, consVars, svcVars, orgVars, splitVars, pipeVars, catVars, twiceVars, xferVars>>
extOthers == <<normVars, consVars, svcVars, orgVars, splitVars, pipeVars, catVars, twiceVars, xferVars>>
consOthers == <<normVars, extVars, svcVars, orgVars, splitVars, pipeVars, catVars, twiceVars, xferVars>>
svcOthers == <<normVars, extVars, consVars, orgVars, splitVars, pipeVars, catVars, twiceVars, xferVars>>
orgOthers == <<normVars, extVars, consVars, svcVars, splitVars, pipeVars, catVars, twiceVars, xferVars>>
splitOthers == <<normVars, extVars, consVars, svcVars, orgVars, pipeVars, catVars, twiceVars, xferVars>>
pipeOthers == <<normVars, extVars, consVars, svcVars, catVars, twiceVars, xferVars>>
catOthers == <<normVars, extVars, consVars, svcVars, orgVars, splitVars, pipeVars, twiceVars, xferVars>>
twiceOthers == <<normVars, extVars, consVars, svcVars, splitVars, pipeVars, catVars, xferVars>>
xferOthers == <<normVars, extVars, consVars, svcVars, orgVars, splitVars, pipeVars, catVars,
                twiceVars>>

\* the components that take no part in a specification stay as they are
NormIdle ==
    /\ nf_filename = <<>> /\ nf_key = None /\ nf_alpha = None
    /\ nf_rekey = None /\ nf_pc = "off"
ExtIdle == ex_stem = <<>> /\ ex_result = None /\ ex_pc = "off"
ConsIdle == cp_codes = {} /\ cp_mapping = <<>> /\ cp_pc = "off"
SvcIdle == running = <<>> /\ message = <<>> /\ req = <<>> /\ worker = <<>>
OrgIdle ==
    /\ tree = {} /\ dirs = {} /\ org_exists = FALSE
    /\ initial = {} /\ now = 0 /\ faults = 0
    /\ brand_files = <<>> /\ work = <<>> /\ last = None
    /\ org_pc = "off" /\ org_result = None
SplitIdle ==
    /\ sp_tree = {} /\ sp_dirs = {} /\ sp_initial = {} /\ sp_queue = <<>>
    /\ sp_faults = 0 /\ sp_last = None /\ sp_pc = "off" /\ sp_success = None
PipeIdle ==
    /\ pl_mode = None /\ pl_pc = "off" /\ pl_split = None /\ pl_organize = None
    /\ pl_result = None
CatIdle ==
    gc_filename = <<>> /\ gc_category = None /\ gc_pc = "off"
TwiceIdle ==
    org_first = <<>>
XferIdle ==
    xf_tree = {} /\ xf_dirs = {} /\ xf_initial = {} /\ xf_main = <<>> /\ xf_folders = {}
    /\ xf_current = None /\ xf_remove = {} /\ xf_faults = 0 /\ xf_last = None
    /\ xf_pc = "off" /\ xf_result = None

(***************************************************************************)
(* The normalizer on every filename up to MaxNameLen characters            *)
(***************************************************************************)
MaxNameLen == 4
NameChars == {"a", "B", "v", "1", "-", "_", " ", "."}

\* longer names: a stem, a version marker or none, an extension or none
MarkedStems ==
    {<<>>, <<"a">>, <<"a", "-", "B">>, <<"a", ".", "b">>,
     <<"_", "v", "1">>, <<"a", "_", "v", "2">>}
Markers == {<<>>, <<"_", "v", "1">>, <<"_", "v", "2">>, <<"_", "v", "1", "0">>}
Exts == {<<>>, <<".", "j", "p", "g">>, <<".", "J", "P", "G">>}
MarkedNames == {s \o m \o e : s \in MarkedStems, m \in Markers, e \in Exts}

NormInit ==
    /\ nf_filename \in StringsUpTo(NameChars, MaxNameLen) \cup MarkedNames
    /\ nf_key = None
    /\ nf_alpha = None
    /\ nf_rekey = None
    /\ nf_pc = "start"
    /\ ExtIdle /\ ConsIdle /\ SvcIdle /\ OrgIdle /\ SplitIdle /\ PipeIdle /\ CatIdle /\ TwiceIdle /\ XferIdle

\* key = normalize_filename(filename), and the key of the second entry point
Normalize ==
    /\ nf_pc = "start"
    /\ nf_key' = normalize_filename(nf_filename)
    /\ nf_alpha' = normalize_filename_with_alpha_numeric(nf_filename)
    /\ nf_pc' = "normalized"
    /\ UNCHANGED <<nf_filename, nf_rekey, normOthers>>

\* the key is a filename again: normalize_filename(key)
Renormalize ==
    /\ nf_pc = "normalized"
    /\ nf_rekey' = normalize_filename(nf_key)
    /\ nf_pc' = "done"
    /\ UNCHANGED <<nf_filename, nf_key, nf_alpha, normOthers>>

NormNext == Normalize \/ Renormalize
SpecNorm == NormInit /\ [][NormNext]_vars

(***************************************************************************)
(* The extractor on stems of up to MaxStemLen characters and on stems of   *)
(* up to MaxTokens tokens                                                  *)
(***************************************************************************)
MaxStemLen == 5
MaxTokens == 3
StemChars == {"a", "B", "1", ".", "-", "_", "#"}
StemTokens == {<<"W">>, <<"a", "b">>, <<"U", "2">>, <<"A", "1", "0", "0">>,
               <<"4">>, <<"1", "0">>, <<"2", ".", "5">>, <<"b">>}
StemSeps == {<<"-">>, <<"_">>, <<" ">>}

RECURSIVE TokenStems(_)
TokenStems(n) ==
    IF n = 1 THEN StemTokens
    ELSE LET shorter == TokenStems(n - 1)
         IN  shorter \cup {s \o sep \o tok : s \in shorter, sep \in StemSeps,
                                            tok \in StemTokens}


ExtInit ==
    /\ ex_stem \in StringsUpTo(StemChars, MaxStemLen) \cup TokenStems(MaxTokens)
    /\ ex_result = None
    /\ ex_pc = "start"
    /\ NormIdle /\ ConsIdle /\ SvcIdle /\ OrgIdle /\ SplitIdle /\ PipeIdle /\ CatIdle /\ TwiceIdle /\ XferIdle

\* name, code, variant = extract_name_code_variant(stem)
Extract ==
    /\ ex_pc = "start"
    /\ ex_result' = extract_name_code_variant(ex_stem)
    /\ ex_pc' = "done"
    /\ UNCHANGED <<ex_stem, extOthers>>

ExtNext == Extract
SpecExtract == ExtInit /\ [][ExtNext]_vars

(***************************************************************************)
(* The consolidator on every set of at most MaxCodes product codes         *)
(***************************************************************************)
MaxCodes == 3
CodeBases == {<<"U", "2">>, <<"U", "2", "2">>, <<"A">>}
CodeTails == {<<>>, <<"-", "4">>, <<"-", "5">>, <<"-", "1", "0">>, <<"_", "4">>,
              <<"-", "a">>, <<"-", "B">>}
CodeUniverse == {b \o tl : b \in CodeBases, tl \in CodeTails} \cup {<<".", "5">>}

\* the sets of at most n members of S
RECURSIVE SetsUpTo(_, _)
SetsUpTo(S, n) ==
    IF n = 0 THEN {{}}
    ELSE UNION {{s, s \cup {x}} : s \in SetsUpTo(S, n - 1), x \in S}

ConsInit ==
    /\ cp_codes \in SetsUpTo(CodeUniverse, MaxCodes)
    /\ cp_mapping = <<>>
    /\ cp_pc = "start"
    /\ NormIdle /\ ExtIdle /\ SvcIdle /\ OrgIdle /\ SplitIdle /\ PipeIdle /\ CatIdle /\ TwiceIdle /\ XferIdle

\* code_mapping = consolidate_product_codes(all_product_codes)
Consolidate ==
    /\ cp_pc = "start"
    /\ cp_mapping' = consolidate_product_codes(cp_codes)
    /\ cp_pc' = "done"
    /\ UNCHANGED <<cp_codes, consOthers>>

ConsNext == Consolidate
SpecConsolidate == ConsInit /\ [][ConsNext]_vars

(***************************************************************************)
(* main.py: MaxRequests POST requests, each served by its own handler      *)
(* thread, and the worker threads the handlers start                       *)
(***************************************************************************)
MaxRequests == 3
OpTypes == {"organize", "transfer"}
Requests == 1..MaxRequests

MsgReady == "Ready"
MsgRunning(t) == IF t = "organize" THEN "Organizing files..." ELSE "Transferring files..."
MsgSuccess(t) == IF t = "organize" THEN "Organization completed successfully!"
                 ELSE "Transfer completed successfully!"
MsgErrors(t) == IF t = "organize" THEN "Organization completed with errors!"
                ELSE "Transfer completed with errors!"
MsgRaised(t) == IF t = "organize" THEN "Error during organization"
                ELSE "Error during transfer"

SvcInit ==
    /\ running = [t \in OpTypes |-> FALSE]
    /\ message = [t \in OpTypes |-> MsgReady]
    /\ req = [r \in Requests |-> [op |-> "none", pc |-> "idle"]]
    /\ worker = [r \in Requests |-> "none"]
    /\ NormIdle /\ ExtIdle /\ ConsIdle /\ OrgIdle /\ SplitIdle /\ PipeIdle /\ CatIdle /\ TwiceIdle /\ XferIdle

\* a POST /organize or POST /transfer arrives
Post(r, t) ==
    /\ req[r].pc = "idle"
    /\ \A q \in Requests : q < r => req[q].pc # "idle"
    /\ req' = [req EXCEPT ![r] = [op |-> t, pc |-> "check"]]
    /\ UNCHANGED <<running, message, worker, svcOthers>>

\* if process_status[type]["running"]: return "already in progress"
CheckRunning(r) ==
    /\ req[r].pc = "check"
    /\ req' = [req EXCEPT ![r].pc = IF running[req[r].op] THEN "rejected"
                                    ELSE "validate"]
    /\ UNCHANGED <<running, message, worker, svcOthers>>

\* if not folder_path or not os.path.exists(folder_path): return "invalid"
ValidatePath(r, exists) ==
    /\ req[r].pc = "validate"
    /\ req' = [req EXCEPT ![r].pc = IF exists THEN "spawn" ELSE "invalid"]
    /\ UNCHANGED <<running, message, worker, svcOthers>>

\* thread.start(); return "started"
StartThread(r) ==
    /\ req[r].pc = "spawn"
    /\ req' = [req EXCEPT ![r].pc = "accepted"]
    /\ worker' = [worker EXCEPT ![r] = "started"]
    /\ UNCHANGED <<running, message, svcOthers>>

\* run_organize / run_transfer: running = True, message = "... files..."
WorkerBegin(w) ==
    /\ worker[w] = "started"
    /\ running' = [running EXCEPT ![req[w].op] = TRUE]
    /\ message' = [message EXCEPT ![req[w].op] = MsgRunning(req[w].op)]
    /\ worker' = [worker EXCEPT ![w] = "running"]
    /\ UNCHANGED <<req, svcOthers>>

\* the run itself: it returns success, returns failure, or raises
WorkerRun(w, outcome) ==
    /\ worker[w] = "running"
    /\ message' = [message EXCEPT ![req[w].op] =
                      CASE outcome = "success" -> MsgSuccess(req[w].op)
                        [] outcome = "errors" -> MsgErrors(req[w].op)
                        [] outcome = "raised" -> MsgRaised(req[w].op)]
    /\ worker' = [worker EXCEPT ![w] = "finally"]
    /\ UNCHANGED <<running, req, svcOthers>>

\* finally: running = False
WorkerFinally(w) ==
    /\ worker[w] = "finally"
    /\ running' = [running EXCEPT ![req[w].op] = FALSE]
    /\ worker' = [worker EXCEPT ![w] = "finished"]
    /\ UNCHANGED <<message, req, svcOthers>>

SvcNext ==
    \/ \E r \in Requests, t \in OpTypes : Post(r, t)
    \/ \E r \in Requests : CheckRunning(r)
    \/ \E r \in Requests, exists \in BOOLEAN : ValidatePath(r, exists)
    \/ \E r \in Requests : StartThread(r)
    \/ \E w \in Requests : WorkerBegin(w)
    \/ \E w \in Requests, outcome \in {"success", "errors", "raised"} : WorkerRun(w, outcome)
    \/ \E w \in Requests : WorkerFinally(w)
SpecService == SvcInit /\ [][SvcNext]_vars

\* the worker threads of type t that have been started and have not finished
ActiveWorkers(t) ==
    {w \in Requests : req[w].op = t /\ worker[w] \in {"started", "running", "finally"}}

\* C4: at most one run of each operation type is started and not finished.
C4_OneRunPerType ==
    \A t \in OpTypes : Cardinality(ActiveWorkers(t)) <= 1

(***************************************************************************)
(* The file tree under webp_folder_path.  A file is [path, id]: path is    *)
(* where it is now (directory names, then the filename), id is the path it *)
(* had when the run started.                                               *)
(***************************************************************************)
NameOf(path) == path[Len(path)]
DirOf(path) == Prefix(path, Len(path) - 1)
IsProperPrefix(d1, d2) == Len(d1) < Len(d2) /\ Prefix(d2, Len(d1)) = d1
IsUnder(d, top) == d = top \/ IsProperPrefix(top, d)
FilesIn(t, d) == {e \in t : DirOf(e.path) = d}
PathsOf(t) == {e.path : e \in t}

\* os.makedirs(path, exist_ok=True)
makedirs(ds, path) == ds \cup {Prefix(path, k) : k \in 1..Len(path)}

\* a move that clears the directory it moves into
MoveSweeping(t, src, dst) ==
    IF src \notin PathsOf(t) \/ src = dst THEN t
    ELSE LET moved == CHOOSE e \in t : e.path = src
         IN  {e \in t : e.path # src /\ DirOf(e.path) # DirOf(dst)}
                \cup {[path |-> dst, id |-> moved.id]}

\* shutil.move(src, dst): the file at dst, if any, is replaced; a missing src
\* raises and nothing moves
Move(t, src, dst) ==
    IF src \notin PathsOf(t) \/ src = dst THEN t
    ELSE LET moved == CHOOSE e \in t : e.path = src
         IN  {e \in t : e.path # src /\ e.path # dst}
                \cup {[path |-> dst, id |-> moved.id]}

\* the orders in which os.walk(top) can list the files: the files of a
\* directory before those of its subdirectories, each subtree in one piece
WalkOrders(t) ==
    LET n == Cardinality(t)
        underSub(e, d) == IsUnder(DirOf(e.path), d)
        subdirs == UNION {{Prefix(DirOf(e.path), k) : k \in 1..Len(DirOf(e.path))} : e \in t}
    IN  {s \in [1..n -> t] :
            /\ \A i, j \in 1..n : i # j => s[i] # s[j]
            /\ \A i, j \in 1..n :
                   i < j => ~IsProperPrefix(DirOf(s[j].path), DirOf(s[i].path))
            /\ \A d \in subdirs : \A i, j, k \in 1..n :
                   (i < j /\ j < k /\ underSub(s[i], d) /\ underSub(s[k], d))
                       => underSub(s[j], d)}

\* the first file named filename that os.walk can come upon
Locate(t, filename) ==
    {e.path : e \in {f \in t :
        /\ NameOf(f.path) = filename
        /\ ~\E g \in t : /\ NameOf(g.path) = filename
                         /\ IsProperPrefix(DirOf(g.path), DirOf(f.path))}}

(***************************************************************************)
(* 4.4 Collision Resolver                                                  *)
(***************************************************************************)
\* a search that finds nothing but a file of the very same name
find_file_of_same_name(t, ds, target_folder, filename) ==
    IF target_folder # <<>> /\ target_folder \notin ds THEN {None}
    ELSE LET matches == {e.path : e \in {f \in FilesIn(t, target_folder) :
                                            NameOf(f.path) = filename}}
         IN  IF matches = {} THEN {None} ELSE matches

\* what find_existing_file_variant can return: the path of a file of
\* target_folder that matches filename (the first one os.listdir yields)
find_existing_file_variant(t, ds, target_folder, filename) ==
    IF target_folder # <<>> /\ target_folder \notin ds THEN {None}
    ELSE LET matches == {e.path : e \in {f \in FilesIn(t, target_folder) :
                                            SameAsset(filename, NameOf(f.path))}}
         IN  IF matches = {} THEN {None} ELSE matches

\* create_old_images_folder: target_folder/Old Images/<category>
create_old_images_folder(target_folder, category) ==
    target_folder \o <<D_OldImages>> \o category

\* datetime.now().strftime("%Y%m%d_%H%M%S") at second `clock` of the run
Timestamp(clock) ==
    <<"2", "0", "2", "6", "1", "1", "0", "4", "_", "1", "2", "0", "0">>
        \o (IF clock < 10 THEN <<"0">> \o Str(clock) ELSE Str(clock))

S_replaced == <<"_", "r", "e", "p", "l", "a", "c", "e", "d", "_">>

\* the path handle_existing_file moves the existing file to
ReplacedPath(existing_file_path, old_images_folder, clock) ==
    LET sp == splitext(NameOf(existing_file_path))
    IN  old_images_folder \o <<sp.base \o S_replaced \o Timestamp(clock) \o sp.ext>>

\* handle_existing_file: the move into Old Images; when it raises the error
\* is printed and nothing has moved
handle_existing_file(t, existing_file_path, old_images_folder, clock, raises) ==
    IF raises THEN t
    ELSE Move(t, existing_file_path,
              ReplacedPath(existing_file_path, old_images_folder, clock))

(***************************************************************************)
(* 4.5 Folder Materializer                                                 *)
(***************************************************************************)
\* brand_files[name].append(filename)
AddToBrand(bf, name, filename) ==
    IF \E i \in 1..Len(bf) : bf[i].brand = name
    THEN [i \in 1..Len(bf) |->
             IF bf[i].brand = name
             THEN [bf[i] EXCEPT !.files = Append(@, filename)]
             ELSE bf[i]]
    ELSE Append(bf, [brand |-> name, files |-> <<filename>>])

\* the first pass over the walk: brand -> filenames, in the order met
RECURSIVE CollectBrands(_, _)
CollectBrands(walk, bf) ==
    IF walk = <<>> THEN bf
    ELSE LET filename == NameOf(Head(walk).path)
             brand == IF ~Contains(filename, ".") THEN None
                      ELSE extract_name_code_variant(splitext(filename).base).name
         IN  Only({
                 IF Falsy(name) THEN CollectBrands(Tail(walk), bf)
                 ELSE Only({CollectBrands(Tail(walk), bf2)
                            : bf2 \in {AddToBrand(bf, name, filename)}})
                 : name \in {brand}})

\* the product code determine_final_product_codes reads off one filename
FileProductCode(filename) ==
    extract_name_code_variant(extract_basename_and_suffix(filename).basename).code

\* determine_final_product_codes: filename -> consolidated product code,
\* for the filenames that have a product code
determine_final_product_codes(files) ==
    Only({
        LET coded == {f \in DOMAIN file_to_product_code :
                         ~Falsy(file_to_product_code[f])}
            all_product_codes == {file_to_product_code[f] : f \in coded}
        IN  Only({
                [f \in coded |->
                    IF file_to_product_code[f] \in DOMAIN code_mapping
                    THEN code_mapping[file_to_product_code[f]]
                    ELSE file_to_product_code[f]]
                : code_mapping \in {consolidate_product_codes(all_product_codes)}})
        : file_to_product_code \in
              {[f \in {files[i] : i \in 1..Len(files)} |-> FileProductCode(f)]}})

\* product_code_groups[final_product_code].append(filename)
AddToGroup(groups, code, filename) ==
    IF \E i \in 1..Len(groups) : groups[i].code = code
    THEN [i \in 1..Len(groups) |->
             IF groups[i].code = code
             THEN [groups[i] EXCEPT !.files = Append(@, filename)]
             ELSE groups[i]]
    ELSE Append(groups, [code |-> code, files |-> <<filename>>])

RECURSIVE GroupByCode(_, _, _)
GroupByCode(files, final, groups) ==
    IF files = <<>> THEN groups
    ELSE LET filename == Head(files)
             code == IF filename \in DOMAIN final THEN final[filename] ELSE None
         IN  Only({GroupByCode(Tail(files), final, groups2)
                   : groups2 \in {AddToGroup(groups, code, filename)}})

RECURSIVE GroupWork(_, _)
GroupWork(brand, groups) ==
    IF groups = <<>> THEN <<>>
    ELSE [i \in 1..Len(Head(groups).files) |->
             [brand |-> brand, code |-> Head(groups).code,
              filename |-> Head(groups).files[i]]]
         \o GroupWork(brand, Tail(groups))

\* the files in the order the second pass handles them, each with its brand
\* and its final product code
RECURSIVE PlacementOrder(_)
PlacementOrder(bf) ==
    IF bf = <<>> THEN <<>>
    ELSE Only({
             Only({GroupWork(Head(bf).brand, groups)
                   : groups \in {GroupByCode(Head(bf).files, final, <<>>)}})
             : final \in {determine_final_product_codes(Head(bf).files)}})
         \o PlacementOrder(Tail(bf))

\* is_empty of clean_up_empty_product_folders: no file below dir_path, and
\* no directory below it but ones named Old Images
IsEmptyFolder(t, ds, dir_path) ==
    /\ \A e \in t : ~IsUnder(DirOf(e.path), dir_path)
    /\ \A d \in ds : IsProperPrefix(dir_path, d) => NameOf(d) = D_OldImages

\* clean_up_empty_product_folders: bottom-up, shutil.rmtree on every folder
\* not named Old Images that is empty; for the folders of `stuck` rmtree
\* raises OSError, which is printed, and the folder stays
RECURSIVE CleanFromDepth(_, _, _, _)
CleanFromDepth(t, ds, depth, stuck) ==
    IF depth = 0 THEN ds
    ELSE LET gone == {d \in ds : /\ Len(d) = depth
                                 /\ NameOf(d) # D_OldImages
                                 /\ IsEmptyFolder(t, ds, d)
                                 /\ d \notin stuck}
             kept == {d \in ds : ~\E g \in gone : IsUnder(d, g)}
         IN  Only({CleanFromDepth(t, left, depth - 1, stuck) : left \in {kept}})

clean_up_empty_product_folders(t, ds, stuck) ==
    LET depths == {Len(d) : d \in ds}
        deepest == IF depths = {} THEN 0
                   ELSE CHOOSE m \in depths : \A k \in depths : k <= m
    IN  CleanFromDepth(t, ds, deepest, stuck)

(***************************************************************************)
(* organize_webp_files on a folder of at most MaxFiles files               *)
(***************************************************************************)
MaxFiles == 3
MaxFaults == 1
MaxClock == 1

F_W1_jpg == <<"W", "-", "1", ".", "j", "p", "g">>
F_W1u_jpg == <<"W", "_", "1", ".", "j", "p", "g">>
F_WA_jpg == <<"W", "-", "A", ".", "j", "p", "g">>
F_WU24_webp == <<"W", "-", "U", "2", "-", "4", ".", "w", "e", "b", "p">>
F_WU24A_webp == <<"W", "-", "U", "2", "-", "4", "-", "A", ".", "w", "e", "b", "p">>
F_WU2B_webp == <<"W", "-", "U", "2", "-", "B", ".", "w", "e", "b", "p">>
F_WAd_jpg == <<"W", "-", "A", "-", ".", "j", "p", "g">>
F_W1_replaced_jpg ==
    <<"W", "-", "1", "_", "r", "e", "p", "l", "a", "c", "e", "d", "_",
      "2", "0", "2", "6", "1", "1", "0", "3", "_", "1", "2", "0", "0", "0", "0",
      ".", "j", "p", "g">>
D_a == <<"a">>
D_b == <<"b">>
D_W == <<"W">>
D_U2 == <<"U", "2">>

\* where the files of a run can be when it starts: dropped in the folder or
\* in a subfolder of it, or left at a destination or in Old Images by an
\* earlier run
InitPaths ==
    {<<F_W1_jpg>>, <<F_WA_jpg>>, <<F_WAd_jpg>>,
     <<F_WU24_webp>>, <<F_WU24A_webp>>, <<F_WU2B_webp>>,
     <<D_a, F_W1_jpg>>, <<D_a, F_W1u_jpg>>, <<D_b, F_W1_jpg>>,
     <<D_W, D_JPEG, F_W1_jpg>>, <<D_W, D_JPEG, F_W1u_jpg>>,
     <<D_W, D_U2, D_WEBP, F_WU2B_webp>>,
     <<D_W, D_OldImages, D_JPEG, F_W1_replaced_jpg>>}

NoStep == [filename |-> None, src |-> None, target_folder |-> None,
           category |-> None, variant |-> None, existing |-> None,
           quarantine |-> "none",
           final_destination |-> None, placement |-> "none"]

\* the folder before a run, with at most limit files in it
OrgFolder(limit) ==
    /\ \E paths \in SUBSET InitPaths :
          /\ Cardinality(paths) <= limit
          /\ org_exists = (paths # {})
          /\ tree = {[path |-> q, id |-> q] : q \in paths}
          /\ initial = paths
          /\ dirs = UNION {makedirs({}, DirOf(q)) : q \in paths}
    /\ now = 0
    /\ faults = 0
    /\ brand_files = <<>>
    /\ work = <<>>
    /\ last = NoStep
    /\ org_pc = "collect"
    /\ org_result = None

OrgInit ==
    /\ OrgFolder(MaxFiles)
    /\ NormIdle /\ ExtIdle /\ ConsIdle /\ SvcIdle /\ SplitIdle /\ PipeIdle /\ CatIdle /\ TwiceIdle /\ XferIdle

\* organize_webp_files on a path that does not exist: the error is printed
\* and False returned
MissingFolder ==
    /\ org_pc = "collect"
    /\ ~org_exists
    /\ org_result' = FALSE
    /\ org_pc' = "done"
    /\ UNCHANGED <<tree, dirs, org_exists, initial, now, faults, brand_files, work,
                   last, orgOthers>>

\* the first pass of organize_webp_folder_only: walk the folder and sort the
\* filenames by brand; the files are then taken brand by brand, product code
\* by product code
CollectFiles ==
    /\ org_pc = "collect"
    /\ org_exists
    /\ \E walk \in WalkOrders(tree) :
       \E bf \in {CollectBrands(walk, <<>>)} :
          /\ brand_files' = bf
          /\ work' = PlacementOrder(bf)
    /\ org_pc' = "place"
    /\ UNCHANGED <<tree, dirs, org_exists, initial, now, faults, last, org_result,
                   orgOthers>>

\* the body of the innermost loop for one filename: find the file, make its
\* folders, quarantine what is in its way, move it
ProcessFile ==
    /\ org_pc = "place"
    /\ work # <<>>
    /\ LET item == Head(work)
           filename == item.filename
           brand_folder_path == <<item.brand>>
           target_folder == IF Falsy(item.code) THEN brand_folder_path
                            ELSE brand_folder_path \o <<item.code>>
           file_category == get_file_category(filename)
           final_destination_folder == target_folder \o file_category
           final_destination == final_destination_folder \o <<filename>>
           old_images_folder == create_old_images_folder(target_folder, file_category)
           found == Locate(tree, filename)
       IN  IF found = {}
           THEN \* Warning: Could not find file path
                /\ dirs' = makedirs(dirs, target_folder)
                /\ last' = [NoStep EXCEPT !.filename = filename,
                                          !.target_folder = target_folder,
                                          !.category = file_category]
                /\ UNCHANGED <<tree, faults>>
           ELSE \E file_path \in found :
                \E existing_file_path \in
                      find_existing_file_variant(tree, makedirs(dirs, final_destination_folder),
                                                 final_destination_folder, filename) :
                \E q_raises, p_raises \in BOOLEAN :
                   LET in_the_way == IF existing_file_path # None THEN existing_file_path
                                     ELSE IF final_destination \in PathsOf(tree)
                                     THEN final_destination
                                     ELSE None
                       quarantined == IF in_the_way = None THEN tree
                                      ELSE handle_existing_file(tree, in_the_way,
                                               old_images_folder, now, q_raises)
                       p_fails == p_raises \/ file_path \notin PathsOf(quarantined)
                       placed == IF file_path = final_destination \/ p_fails
                                 THEN quarantined
                                 ELSE Move(quarantined, file_path, final_destination)
                       used == (IF q_raises THEN 1 ELSE 0) + (IF p_raises THEN 1 ELSE 0)
                   IN  /\ q_raises => in_the_way # None
                       /\ p_raises => file_path # final_destination
                       /\ faults + used <= MaxFaults
                       /\ faults' = faults + used
                       /\ tree' = placed
                       /\ dirs' = IF in_the_way = None
                                  THEN makedirs(dirs, final_destination_folder)
                                  ELSE makedirs(makedirs(dirs, final_destination_folder),
                                                old_images_folder)
                       /\ last' = [filename |-> filename,
                                   src |-> file_path,
                                   target_folder |-> target_folder,
                                   category |-> file_category,
                                   variant |-> existing_file_path,
                                   existing |-> in_the_way,
                                   quarantine |-> IF in_the_way = None THEN "none"
                                                  ELSE IF q_raises THEN "failed"
                                                  ELSE "moved",
                                   final_destination |-> final_destination,
                                   placement |-> IF file_path = final_destination
                                                 THEN "in place"
                                                 ELSE IF p_fails THEN "failed"
                                                 ELSE "moved"]
    /\ work' = Tail(work)
    /\ UNCHANGED <<org_exists, initial, now, brand_files, org_pc, org_result,
                   orgOthers>>

\* the clock reaches the next second while the run goes on
Tick ==
    /\ org_pc = "place"
    /\ now < MaxClock
    /\ now' = now + 1
    /\ UNCHANGED <<tree, dirs, org_exists, initial, faults, brand_files, work,
                   last, org_pc, org_result, orgOthers>>

\* organize_webp_files after the placement: clean_up_empty_product_folders,
\* where shutil.rmtree can raise, return True
CleanUp ==
    /\ org_pc = "place"
    /\ work = <<>>
    /\ \E stuck \in SUBSET {d \in dirs : /\ NameOf(d) # D_OldImages
                                        /\ IsEmptyFolder(tree, dirs, d)} :
          /\ faults + Cardinality(stuck) <= MaxFaults
          /\ faults' = faults + Cardinality(stuck)
          /\ dirs' = clean_up_empty_product_folders(tree, dirs, stuck)
    /\ org_result' = TRUE
    /\ org_pc' = "done"
    /\ UNCHANGED <<tree, org_exists, initial, now, brand_files, work, last, orgOthers>>

OrgNext == MissingFolder \/ CollectFiles \/ ProcessFile \/ Tick \/ CleanUp
Spec == OrgInit /\ [][OrgNext]_vars

(***************************************************************************)
(* organize.py run twice on one folder, nothing added in between           *)
(***************************************************************************)
\* organize_webp_files called again on the folder the first call returned
\* from: the walk, the grouping and the placements start over
RunAgain ==
    /\ org_pc = "done"
    /\ org_first = <<>>
    /\ org_first' = <<tree>>
    /\ brand_files' = <<>>
    /\ work' = <<>>
    /\ last' = NoStep
    /\ org_pc' = "collect"
    /\ org_result' = None
    /\ UNCHANGED <<tree, dirs, org_exists, initial, now, faults, twiceOthers>>

MaxTwiceFiles == 2

TwiceInit ==
    /\ OrgFolder(MaxTwiceFiles)
    /\ NormIdle /\ ExtIdle /\ ConsIdle /\ SvcIdle /\ SplitIdle /\ PipeIdle /\ CatIdle /\ TwiceIdle /\ XferIdle

TwiceNext == OrgNext \/ RunAgain
SpecTwice == TwiceInit /\ [][TwiceNext]_vars

(***************************************************************************)
(* split.py: the bucketing stage                                           *)
(***************************************************************************)
D_NeedsLabeling ==
    <<"N", "e", "e", "d", "s", " ", "L", "a", "b", "e", "l", "i", "n", "g">>
D_Staging ==
    <<"_", "_", "W", "E", "B", "P", " ", "T", "o", " ", "b", "e", " ", "m",
      "o", "v", "e", " ", "t", "o", " ", "t", "h", "e", " ", "r", "i", "g",
      "h", "t", " ", "f", "o", "l", "d", "e", "r", "s">>
D_gslisting == <<"g", "s", "l", "i", "s", "t", "i", "n", "g">>
S_image == <<"i", "m", "a", "g", "e">>
S_v == <<"_", "v">>
S_seq0 == <<"-", "0">>

\* is_media_file: the lowercased suffix is one of the media extensions
is_media_file(filename) ==
    Lower(splitext(filename).ext) \in {S_webp, S_jpg, S_jpeg, S_mov, S_mp4, S_png}

\* re.search(r'\d{8}_\d{6}', filename)
HasTimestamp(filename) ==
    \E i \in 1..(Len(filename) - 14) :
        /\ \A k \in 0..7 : IsDigit(filename[i + k])
        /\ filename[i + 8] = "_"
        /\ \A k \in 9..14 : IsDigit(filename[i + k])

\* is_image_file: no .mov, and a name that starts with img, images or image
\* or holds a timestamp
is_image_file(filename) ==
    /\ ~EndsWith(Lower(filename), S_mov)
    /\ \/ StartsWith(Lower(filename), S_img)
       \/ StartsWith(Lower(filename), S_image)
       \/ HasTimestamp(filename)

\* has_sequence_suffix: re.search(r'[-_\s][A-Za-z0-9]$', stem)
has_sequence_suffix(filename) ==
    LET name == splitext(filename).base
    IN  /\ Len(name) >= 2
        /\ IsSep(name[Len(name) - 1])
        /\ (IsAlpha(name[Len(name)]) \/ IsDigit(name[Len(name)]))

\* ensure_sequence_suffix: -0 is added to a stem without sequence suffix
ensure_sequence_suffix(filename) ==
    IF has_sequence_suffix(filename) THEN filename
    ELSE splitext(filename).base \o S_seq0 \o splitext(filename).ext

\* get_versioned_filename(file_path, version).name
get_versioned_filename(filename, version) ==
    LET sp == splitext(filename)
    IN  StripVersion(sp.base) \o S_v \o Str(version) \o sp.ext

\* a name that directory.glob(base_name + "*" + extension) yields
GlobMatches(filename, base_name, extension) ==
    /\ Len(filename) >= Len(base_name) + Len(extension)
    /\ StartsWith(filename, base_name)
    /\ EndsWith(filename, extension)

\* shutil.move(src, dst) on files that carry their modification time: the
\* file at dst, if any, is replaced
shutil_move(t, src, dst) ==
    IF src \notin PathsOf(t) \/ src = dst THEN t
    ELSE {e \in t : e.path # src /\ e.path # dst}
            \cup {[e EXCEPT !.path = dst] : e \in {f \in t : f.path = src}}

\* the files a name pattern of resolve_conflict collects in the directory of
\* dest_file, the source left out
ConflictingFiles(t, source_file, dest_file) ==
    LET base_name == StripVersion(splitext(NameOf(dest_file)).base)
        extension == splitext(NameOf(dest_file)).ext
    IN  {f \in FilesIn(t, DirOf(dest_file)) :
            /\ GlobMatches(NameOf(f.path), base_name, extension)
            /\ f.path # source_file}

\* conflicting_files after the sort by timestamp: the collected files in
\* the order of the glob, the source appended, sorted with a stable sort
SortedChains(t, source_file, dest_file) ==
    LET source == CHOOSE e \in t : e.path = source_file
        members == ConflictingFiles(t, source_file, dest_file) \cup {source}
        n == Cardinality(members)
    IN  {s \in [1..n -> members] :
            /\ \A i, j \in 1..n : i # j => s[i] # s[j]
            /\ \A i, j \in 1..n : i < j =>
                  /\ s[i].mtime <= s[j].mtime
                  /\ s[i] = source => s[i].mtime < s[j].mtime}

\* the loop of resolve_conflict from position k to position upto: each file
\* that exists at its old path is moved to webp_folder/<stem>_v<k><ext>
RECURSIVE RenameChain(_, _, _, _, _)
RenameChain(t, chain, k, upto, webp_folder) ==
    IF k > upto THEN t
    ELSE LET file_path == chain[k].path
             new_path == webp_folder \o <<get_versioned_filename(NameOf(file_path), k)>>
         IN  Only({RenameChain(moved, chain, k + 1, upto, webp_folder) :
                      moved \in {shutil_move(t, file_path, new_path)}})

\* the outcomes of resolve_conflict: every file of the chain renamed and
\* the versioned name of the source returned, or shutil.move raising at one
\* of the files
resolve_conflict(t, source_file, dest_file, webp_folder) ==
    UNION {
        {[tree |-> RenameChain(t, chain, 1, Len(chain), webp_folder),
          chain |-> chain,
          returned |-> webp_folder
              \o <<get_versioned_filename(NameOf(source_file), Len(chain))>>,
          raised |-> FALSE]}
        \cup
        {[tree |-> RenameChain(t, chain, 1, r - 1, webp_folder),
          chain |-> chain,
          returned |-> None,
          raised |-> TRUE] :
            r \in {k \in 1..Len(chain) :
                      chain[k].path \in PathsOf(RenameChain(t, chain, 1, k - 1, webp_folder))}}
        : chain \in SortedChains(t, source_file, dest_file)}

\* the outcomes of move_file_safely: a plain move when nothing is at
\* dest_file, resolve_conflict otherwise
move_file_safely(t, source_file, dest_file, webp_folder) ==
    IF dest_file \notin PathsOf(t)
    THEN {[tree |-> shutil_move(t, source_file, dest_file), chain |-> <<>>,
           returned |-> dest_file, raised |-> FALSE],
          [tree |-> t, chain |-> <<>>, returned |-> None, raised |-> TRUE]}
    ELSE resolve_conflict(t, source_file, dest_file, webp_folder)

S_UnknownProduct ==
    <<"U", "n", "k", "n", "o", "w", "n", "P", "r", "o", "d", "u", "c", "t">>

\* process_mov_file: the destination <brand>-<product>-<letter><suffix> in
\* webp_folder, brand and product taken from the first two directories,
\* the letter from the number of files already named so
MovDestination(t, file_path, webp_folder) ==
    LET brand == file_path[1]
        product == IF Len(file_path) > 2 THEN file_path[2] ELSE S_UnknownProduct
        suffix == splitext(NameOf(file_path)).ext
        stem == brand \o <<"-">> \o product \o <<"-">>
        existing_files == {f \in FilesIn(t, webp_folder) :
                              GlobMatches(NameOf(f.path), stem, suffix)}
        seq_id == UpperSeq[Cardinality(existing_files) + 1]
    IN  webp_folder \o <<stem \o <<seq_id>> \o suffix>>

\* the folders remove_empty_dirs_aggressive and verify_no_empty_folders
\* leave alone, the main folder itself being no member of the directories
KeptFolders == {<<D_NeedsLabeling>>, <<D_Staging>>, <<D_gslisting>>}

\* is_directory_truly_empty: the directory has no entry
is_directory_truly_empty(t, ds, d) ==
    /\ ~\E e \in t : DirOf(e.path) = d
    /\ ~\E c \in ds : Len(c) = Len(d) + 1 /\ Prefix(c, Len(d)) = d

\* remove_empty_dirs_aggressive: deepest first and pass after pass, every
\* empty directory but the kept ones is removed, except those of `stuck`,
\* for which force_remove_directory returns False
RECURSIVE remove_empty_dirs_aggressive(_, _, _)
remove_empty_dirs_aggressive(t, ds, stuck) ==
    LET gone == {d \in ds : /\ d \notin KeptFolders
                            /\ d \notin stuck
                            /\ is_directory_truly_empty(t, ds, d)}
    IN  IF gone = {} THEN ds
        ELSE Only({remove_empty_dirs_aggressive(t, left, stuck) : left \in {ds \ gone}})

\* verify_no_empty_folders: the empty directories that are not kept ones
verify_no_empty_folders(t, ds) ==
    {d \in ds : d \notin KeptFolders /\ is_directory_truly_empty(t, ds, d)}

(***************************************************************************)
(* process_files on a main folder of at most MaxSplitFiles files with      *)
(* modification times up to MaxTime; no folder is named *.gslisting        *)
(***************************************************************************)
MaxSplitFiles == 3
MaxTime == 3

F_W1v1_jpg == <<"W", "-", "1", "_", "v", "1", ".", "j", "p", "g">>
F_W12_jpg == <<"W", "-", "1", "2", ".", "j", "p", "g">>
F_IMG1_jpg == <<"I", "M", "G", "1", ".", "j", "p", "g">>
F_n_txt == <<"n", ".", "t", "x", "t">>
F_c_mov == <<"c", ".", "m", "o", "v">>

\* where the files can be when process_files starts: in subfolders of the
\* main folder, or in the staging folders where an earlier run put them
SplitPaths ==
    {<<D_a, F_W1_jpg>>, <<D_b, F_W1_jpg>>, <<D_a, F_IMG1_jpg>>, <<D_a, F_n_txt>>,
     <<D_a, F_c_mov>>,
     <<D_Staging, F_W1_jpg>>, <<D_Staging, F_W1v1_jpg>>, <<D_Staging, F_W1u_jpg>>,
     <<D_Staging, F_W12_jpg>>,
     <<D_NeedsLabeling, D_a, F_IMG1_jpg>>}

NoMove == [source |-> None, dest |-> None, webp_folder |-> None, chain |-> <<>>,
           returned |-> None, raised |-> FALSE]

\* the main folder before the run
SplitFolder(limit) ==
    /\ \E paths \in SetsUpTo(SplitPaths, limit) :
       \E mtimes \in [paths -> 1..MaxTime] :
          /\ sp_tree = {[path |-> p, id |-> p, mtime |-> mtimes[p]] : p \in paths}
          /\ sp_initial = paths
          /\ sp_dirs = UNION {makedirs({}, DirOf(p)) : p \in paths}
    /\ sp_queue = <<>>
    /\ sp_faults = 0
    /\ sp_last = NoMove
    /\ sp_success = None

SplitInit ==
    /\ SplitFolder(MaxSplitFiles)
    /\ sp_pc = "start"
    /\ NormIdle /\ ExtIdle /\ ConsIdle /\ SvcIdle /\ OrgIdle /\ PipeIdle /\ CatIdle /\ TwiceIdle /\ XferIdle

\* process_files up to the loop: the three folders are made and the files
\* of every directory but the main folder and the three folders themselves
\* are listed in the order of os.walk
SplitStart ==
    /\ sp_pc = "start"
    /\ sp_dirs' = sp_dirs \cup KeptFolders
    /\ \E walk \in WalkOrders({e \in sp_tree :
                                 DirOf(e.path) \notin KeptFolders \cup {<<>>}}) :
          sp_queue' = [i \in DOMAIN walk |-> walk[i].path]
    /\ sp_pc' = "move"
    /\ UNCHANGED <<sp_tree, sp_initial, sp_faults, sp_last, sp_success, splitOthers>>

\* one turn of the loop of process_files: the file goes to the staging
\* folder or to Needs Labeling; shutil.move raising ends process_files
SplitMove ==
    /\ sp_pc = "move"
    /\ sp_queue # <<>>
    /\ LET file_path == Head(sp_queue)
           name == NameOf(file_path)
           is_mov == Lower(splitext(name).ext) = S_mov
           to_staging == is_media_file(name) /\ ~is_image_file(name)
           dest == IF is_mov THEN MovDestination(sp_tree, file_path, <<D_Staging>>)
                   ELSE IF to_staging THEN <<D_Staging, ensure_sequence_suffix(name)>>
                   ELSE <<D_NeedsLabeling>> \o file_path
           webp_folder == IF is_media_file(name) THEN <<D_Staging>>
                          ELSE <<D_NeedsLabeling>>
           outcomes == IF is_mov
                       THEN {[tree |-> shutil_move(sp_tree, file_path, dest),
                              chain |-> <<>>, returned |-> dest, raised |-> FALSE],
                             [tree |-> sp_tree, chain |-> <<>>, returned |-> None,
                              raised |-> TRUE]}
                       ELSE move_file_safely(sp_tree, file_path, dest, webp_folder)
       IN  IF file_path \notin PathsOf(sp_tree)
           THEN /\ sp_queue' = Tail(sp_queue)
                /\ sp_last' = NoMove
                /\ UNCHANGED <<sp_tree, sp_dirs, sp_faults, sp_pc>>
           ELSE \E out \in outcomes :
                   /\ out.raised => sp_faults < MaxFaults
                   /\ sp_faults' = IF out.raised THEN sp_faults + 1 ELSE sp_faults
                   /\ sp_tree' = out.tree
                   /\ sp_dirs' = IF is_mov THEN sp_dirs ELSE makedirs(sp_dirs, DirOf(dest))
                   /\ sp_last' = [source |-> file_path, dest |-> dest,
                                  webp_folder |-> webp_folder, chain |-> out.chain,
                                  returned |-> out.returned, raised |-> out.raised]
                   /\ sp_queue' = Tail(sp_queue)
                   /\ sp_pc' = IF out.raised THEN "raised" ELSE "move"
    /\ UNCHANGED <<sp_initial, sp_success, splitOthers>>

\* process_files after the loop: remove_empty_dirs_aggressive, then
\* verify_no_empty_folders, whose findings make the second value False
SplitPrune ==
    /\ sp_pc = "move"
    /\ sp_queue = <<>>
    /\ \E stuck \in SUBSET {d \in sp_dirs : d \notin KeptFolders} :
          /\ sp_faults + Cardinality(stuck) <= MaxFaults
          /\ stuck \subseteq verify_no_empty_folders(sp_tree,
                                remove_empty_dirs_aggressive(sp_tree, sp_dirs, stuck))
          /\ sp_faults' = sp_faults + Cardinality(stuck)
          /\ \E left \in {remove_empty_dirs_aggressive(sp_tree, sp_dirs, stuck)} :
                /\ sp_dirs' = left
                /\ sp_success' = (verify_no_empty_folders(sp_tree, left) = {})
    /\ sp_pc' = "done"
    /\ UNCHANGED <<sp_tree, sp_initial, sp_queue, sp_last, splitOthers>>

SplitNext == SplitStart \/ SplitMove \/ SplitPrune

SpecSplit == SplitInit /\ [][SplitNext]_vars

(***************************************************************************)
(* merge.py: the split stage, then the organize stage on the staging       *)
(* folder, on a main folder of at most MaxPipeFiles files                  *)
(***************************************************************************)
MaxPipeFiles == 2

\* main and main_web run both stages, main --organize-only and
\* --skip-organize one of them, and organize.py run by itself calls
\* organize_webp_files with the path it is given
PipeModes == {"both", "organize-only", "skip-organize", "organize.py"}

\* a staging folder taken to be there without a look
StagingAssumed(ds) == TRUE

\* webp_folder_path.exists()
StagingExists(ds) == <<D_Staging>> \in ds

\* the files and the directories of the staging folder, as paths from it
StagingFiles(t) ==
    {[path |-> Tail(e.path), id |-> e.id] :
        e \in {f \in t : Len(f.path) > 1 /\ f.path[1] = D_Staging}}
StagingDirs(ds) == {Tail(d) : d \in {c \in ds : Len(c) > 1 /\ c[1] = D_Staging}}

PipeInit ==
    /\ pl_mode \in PipeModes
    /\ SplitFolder(MaxPipeFiles)
    /\ sp_pc = IF pl_mode \in {"both", "skip-organize"} THEN "start" ELSE "off"
    /\ pl_pc = IF pl_mode \in {"both", "skip-organize"} THEN "split" ELSE "organize"
    /\ pl_split = None
    /\ pl_organize = None
    /\ pl_result = None
    /\ NormIdle /\ ExtIdle /\ ConsIdle /\ SvcIdle /\ OrgIdle /\ CatIdle /\ TwiceIdle /\ XferIdle

\* a run_script that takes the warning of process_files for a failure
SplitReturnsStoppingOnWarning ==
    /\ pl_pc = "split"
    /\ sp_pc \in {"done", "raised"}
    /\ pl_split' = (sp_pc = "done" /\ sp_success)
    /\ IF sp_pc = "raised" \/ ~sp_success THEN pl_pc' = "done" /\ pl_result' = 1
       ELSE IF pl_mode = "skip-organize" THEN pl_pc' = "done" /\ pl_result' = 0
       ELSE pl_pc' = "organize" /\ pl_result' = pl_result
    /\ UNCHANGED <<pl_mode, pl_organize, splitVars, orgVars, pipeOthers>>

\* run_script(..., "SPLIT") returning: True when process_files returned,
\* with or without the warning, False when it raised; the caller stops on
\* False and goes on to the organize stage unless it is skipped
SplitReturns ==
    /\ pl_pc = "split"
    /\ sp_pc \in {"done", "raised"}
    /\ pl_split' = (sp_pc = "done")
    /\ IF sp_pc = "raised" THEN pl_pc' = "done" /\ pl_result' = 1
       ELSE IF pl_mode = "skip-organize" THEN pl_pc' = "done" /\ pl_result' = 0
       ELSE pl_pc' = "organize" /\ pl_result' = pl_result
    /\ UNCHANGED <<pl_mode, pl_organize, splitVars, orgVars, pipeOthers>>

\* run_script(..., "ORGANIZE") up to the call of organize_webp_files: a
\* missing staging folder is an error message and False, which the caller
\* turns into the exit value 1; organize.py by itself makes the call at once
OrganizeStage ==
    /\ pl_pc = "organize"
    /\ org_pc = "off"
    /\ IF pl_mode # "organize.py" /\ ~StagingExists(sp_dirs)
       THEN /\ pl_organize' = FALSE
            /\ pl_result' = 1
            /\ pl_pc' = "done"
            /\ UNCHANGED orgVars
       ELSE /\ tree' = StagingFiles(sp_tree)
            /\ dirs' = StagingDirs(sp_dirs)
            /\ org_exists' = StagingExists(sp_dirs)
            /\ initial' = {e.id : e \in StagingFiles(sp_tree)}
            /\ now' = 0
            /\ faults' = sp_faults
            /\ brand_files' = <<>>
            /\ work' = <<>>
            /\ last' = NoStep
            /\ org_pc' = "collect"
            /\ org_result' = None
            /\ UNCHANGED <<pl_organize, pl_result, pl_pc>>
    /\ UNCHANGED <<pl_mode, pl_split, splitVars, pipeOthers>>

\* organize_webp_files returning to run_script, and run_script to its
\* caller: the exit value is 0 when it returned True and 1 otherwise
OrganizeReturns ==
    /\ pl_pc = "organize"
    /\ org_pc = "done"
    /\ pl_organize' = org_result
    /\ pl_result' = IF pl_mode = "organize.py" THEN None
                    ELSE IF org_result THEN 0 ELSE 1
    /\ pl_pc' = "done"
    /\ UNCHANGED <<pl_mode, pl_split, splitVars, orgVars, pipeOthers>>

PipeNext ==
    \/ SplitStart \/ SplitMove \/ SplitPrune \/ SplitReturns
    \/ OrganizeStage
    \/ MissingFolder \/ CollectFiles \/ ProcessFile \/ Tick \/ CleanUp
    \/ OrganizeReturns

SpecPipeline == PipeInit /\ [][PipeNext]_vars

(***************************************************************************)
(* get_file_category on filenames made of a stem and an extension          *)
(***************************************************************************)
CategoryStems ==
    {<<>>, <<"a">>, <<"i", "m", "g">>, <<"I", "M", "G", "1">>, <<"I", "m", "g", "-", "a">>,
     <<"i", "m">>, <<"a", "i", "m", "g">>, <<"i", "m", "a", "g", "e">>,
     <<"a", ".", "w", "e", "b", "p">>, <<"i", "m", "g", ".", "m", "p", "4">>}
CategoryExts ==
    {<<>>, S_webp, S_jpg, S_jpeg, S_png, S_mov, S_mp4,
     <<".", "W", "E", "B", "P">>, <<".", "J", "p", "g">>, <<".", "J", "P", "E", "G">>,
     <<".", "P", "N", "G">>, <<".", "M", "O", "V">>, <<".", "M", "P", "4">>,
     <<".", "t", "x", "t">>, <<".", "a", "v", "i">>, <<".">>}
CategoryNames == {s \o e : s \in CategoryStems, e \in CategoryExts}

CatInit ==
    /\ gc_filename \in CategoryNames
    /\ gc_category = None
    /\ gc_pc = "start"
    /\ NormIdle /\ ExtIdle /\ ConsIdle /\ SvcIdle /\ OrgIdle /\ SplitIdle /\ PipeIdle /\ TwiceIdle /\ XferIdle

\* file_category = get_file_category(filename)
Categorize ==
    /\ gc_pc = "start"
    /\ gc_category' = get_file_category(gc_filename)
    /\ gc_pc' = "done"
    /\ UNCHANGED <<gc_filename, catOthers>>

CatNext == Categorize
SpecCategory == CatInit /\ [][CatNext]_vars

(***************************************************************************)
(* transfer.py: the contents of the subfolders of the staging folder are   *)
(* moved into the folders of the main folder that have the same normalized *)
(* name; a main folder of at most MaxXferFiles files                       *)
(***************************************************************************)
\* path.exists(): a file or a directory is there
PathExists(t, ds, path) == path \in PathsOf(t) \/ path \in ds

\* parent / f"{stem}_{counter}{suffix}"
NumberedPath(dest_file, counter) ==
    DirOf(dest_file) \o <<splitext(NameOf(dest_file)).base \o <<"_">> \o Str(counter)
                           \o splitext(NameOf(dest_file)).ext>>

\* a duplicate handling that returns the destination as it is
handle_duplicate_blind(t, ds, dest_file) == dest_file

\* handle_duplicate: dest_file when nothing is there, else the path with
\* the first counter from 1 on at which nothing is there
handle_duplicate(t, ds, dest_file) ==
    IF ~PathExists(t, ds, dest_file) THEN dest_file
    ELSE LET free == {c \in 1..(Cardinality(t) + Cardinality(ds) + 1) :
                         ~PathExists(t, ds, NumberedPath(dest_file, c))}
         IN  NumberedPath(dest_file, CHOOSE c \in free : \A d \in free : c <= d)

\* name.lower().replace(' ', '').replace('-', '').replace('_', '')
normalize_folder_name(name) == Lower(SelectSeq(name, LAMBDA c : ~IsSep(c)))

\* find_matching_folder: the first folder of main_folders, in the order of
\* the dict, whose normalized name is that of source_name; none is <<>>
find_matching_folder(source_name, main_folders) ==
    LET hits == {i \in DOMAIN main_folders :
                    normalize_folder_name(main_folders[i])
                        = normalize_folder_name(source_name)}
    IN  IF hits = {} THEN <<>>
        ELSE <<main_folders[CHOOSE i \in hits : \A j \in hits : i <= j]>>

MaxXferFiles == 3

D_wu == <<"w", "_">>
D_wh == <<"w", "-">>
D_X == <<"X">>
F_x_jpg == <<"x", ".", "j", "p", "g">>
F_x1_jpg == <<"x", "_", "1", ".", "j", "p", "g">>

\* the files of the staging folder's subfolders and of the folders beside
\* it; JPEG is a directory in one place and a file in another
XferPaths ==
    {<<D_Staging, D_W, F_x_jpg>>, <<D_Staging, D_W, D_JPEG, F_x_jpg>>,
     <<D_Staging, D_wu, F_x_jpg>>, <<D_Staging, D_wu, F_x1_jpg>>,
     <<D_Staging, D_X, F_x_jpg>>, <<D_Staging, F_n_txt>>,
     <<D_W, F_x_jpg>>, <<D_W, F_x1_jpg>>, <<D_W, D_JPEG, F_x_jpg>>, <<D_W, D_JPEG>>,
     <<D_wh, F_x_jpg>>}

\* directories that can be there with nothing in them
XferEmptyDirs == {<<D_Staging>>, <<D_Staging, D_W>>, <<D_W>>}

NoTransfer == [step |-> "none", item |-> None, target_path |-> None,
               final_target |-> None, moved |-> FALSE, removed |-> None]

\* the orders of a dict built from iterdir()
Orderings(S) ==
    {s \in [1..Cardinality(S) -> S] : \A i, j \in DOMAIN s : i # j => s[i] # s[j]}

XferInit ==
    /\ \E paths \in SetsUpTo(XferPaths, MaxXferFiles) :
       \E empty \in SUBSET XferEmptyDirs :
          /\ \A p, q \in paths : ~IsProperPrefix(p, q)
          /\ xf_tree = {[path |-> p, id |-> p] : p \in paths}
          /\ xf_initial = paths
          /\ xf_dirs = UNION {makedirs({}, DirOf(p)) : p \in paths}
                          \cup UNION {makedirs({}, d) : d \in empty}
    /\ xf_main = <<>>
    /\ xf_folders = {}
    /\ xf_current = None
    /\ xf_remove = {}
    /\ xf_faults = 0
    /\ xf_last = NoTransfer
    /\ xf_pc = "start"
    /\ xf_result = None
    /\ NormIdle /\ ExtIdle /\ ConsIdle /\ SvcIdle /\ OrgIdle /\ SplitIdle /\ PipeIdle
    /\ CatIdle /\ TwiceIdle

\* organize_webp_folders up to its loop: False when the staging folder is
\* missing; else the dict of the other folders of the main folder and the
\* subfolders of the staging folder
TransferStart ==
    /\ xf_pc = "start"
    /\ IF <<D_Staging>> \notin xf_dirs
       THEN /\ xf_result' = FALSE
            /\ xf_pc' = "done"
            /\ UNCHANGED <<xf_main, xf_folders>>
       ELSE /\ xf_main' \in Orderings({d[1] : d \in {c \in xf_dirs :
                                         Len(c) = 1 /\ c # <<D_Staging>>}})
            /\ xf_folders' = {d \in xf_dirs : Len(d) = 2 /\ d[1] = D_Staging}
            /\ xf_pc' = "folders"
            /\ UNCHANGED xf_result
    /\ UNCHANGED <<xf_tree, xf_dirs, xf_initial, xf_current, xf_remove, xf_faults,
                   xf_last, xferOthers>>

\* one turn of the loop over the subfolders: a subfolder without a
\* matching folder is left alone, the files of another are listed by rglob
TransferFolder ==
    /\ xf_pc = "folders"
    /\ \E source_subfolder \in xf_folders :
          /\ xf_folders' = xf_folders \ {source_subfolder}
          /\ \E target_folder \in {find_matching_folder(source_subfolder[2], xf_main)} :
                IF target_folder = <<>>
                THEN UNCHANGED <<xf_current, xf_pc>>
                ELSE /\ \E walk \in WalkOrders({e \in xf_tree :
                                        IsProperPrefix(source_subfolder, e.path)}) :
                           xf_current' = [source |-> source_subfolder,
                                          target |-> target_folder,
                                          items |-> [i \in DOMAIN walk |-> walk[i].path],
                                          moved |-> 0]
                     /\ xf_pc' = "moving"
    /\ xf_last' = NoTransfer
    /\ UNCHANGED <<xf_tree, xf_dirs, xf_initial, xf_main, xf_remove, xf_faults,
                   xf_result, xferOthers>>

\* one turn of the loop of move_contents_recursively: mkdir of the parent,
\* which raises when a file is where a directory has to be, then
\* handle_duplicate and shutil.move, whose exception is caught and printed
TransferMove ==
    /\ xf_pc = "moving"
    /\ xf_current.items # <<>>
    /\ LET item == Head(xf_current.items)
           rel_path == SubSeq(item, 3, Len(item))
           target_path == xf_current.target \o rel_path
           parent == DirOf(target_path)
           made == makedirs(xf_dirs, parent)
           final_target == handle_duplicate(xf_tree, made, target_path)
       IN  IF \E k \in 1..Len(parent) : Prefix(parent, k) \in PathsOf(xf_tree)
           THEN /\ xf_pc' = "raised"
                /\ xf_last' = [NoTransfer EXCEPT !.step = "mkdir raised", !.item = item,
                                                 !.target_path = target_path]
                /\ UNCHANGED <<xf_tree, xf_dirs, xf_current, xf_faults>>
           ELSE \E raises \in BOOLEAN :
                   /\ raises => xf_faults < MaxFaults
                   /\ xf_faults' = IF raises THEN xf_faults + 1 ELSE xf_faults
                   /\ xf_dirs' = made
                   /\ xf_tree' = IF raises THEN xf_tree
                                 ELSE shutil_move(xf_tree, item, final_target)
                   /\ xf_current' = [xf_current EXCEPT
                                        !.items = Tail(xf_current.items),
                                        !.moved = IF raises THEN @ ELSE @ + 1]
                   /\ xf_last' = [NoTransfer EXCEPT !.step = "move", !.item = item,
                                                    !.target_path = target_path,
                                                    !.final_target = final_target,
                                                    !.moved = ~raises]
                   /\ UNCHANGED xf_pc
    /\ UNCHANGED <<xf_initial, xf_main, xf_folders, xf_remove, xf_result, xferOthers>>

\* after move_contents_recursively: the subfolder is marked for removal when
\* something was moved out of it or when it has no entry at all
TransferFolderEnd ==
    /\ xf_pc = "moving"
    /\ xf_current.items = <<>>
    /\ xf_remove' =
          IF \/ xf_current.moved > 0
             \/ ~\E p \in PathsOf(xf_tree) \cup xf_dirs :
                    IsProperPrefix(xf_current.source, p)
          THEN xf_remove \cup {xf_current.source}
          ELSE xf_remove
    /\ xf_pc' = "folders"
    /\ xf_last' = NoTransfer
    /\ UNCHANGED <<xf_tree, xf_dirs, xf_initial, xf_main, xf_folders, xf_current,
                   xf_faults, xf_result, xferOthers>>

\* one turn of the loop over folders_to_remove: shutil.rmtree when no file
\* is left under the folder, its exception caught and printed
TransferRemove ==
    /\ xf_pc = "folders"
    /\ xf_folders = {}
    /\ \E folder_to_remove \in xf_remove :
       \E raises \in BOOLEAN :
          /\ raises => (/\ xf_faults < MaxFaults
                        /\ ~\E e \in xf_tree : IsProperPrefix(folder_to_remove, e.path))
          /\ xf_faults' = IF raises THEN xf_faults + 1 ELSE xf_faults
          /\ xf_remove' = xf_remove \ {folder_to_remove}
          /\ IF raises \/ \E e \in xf_tree : IsProperPrefix(folder_to_remove, e.path)
             THEN /\ xf_last' = [NoTransfer EXCEPT !.step = "kept"]
                  /\ UNCHANGED xf_dirs
             ELSE /\ xf_dirs' = {d \in xf_dirs : d # folder_to_remove
                                    /\ ~IsProperPrefix(folder_to_remove, d)}
                  /\ xf_last' = [NoTransfer EXCEPT !.step = "rmtree",
                                                   !.removed = folder_to_remove]
    /\ UNCHANGED <<xf_tree, xf_initial, xf_main, xf_folders, xf_current, xf_pc,
                   xf_result, xferOthers>>

\* return True
TransferEnd ==
    /\ xf_pc = "folders"
    /\ xf_folders = {}
    /\ xf_remove = {}
    /\ xf_result' = TRUE
    /\ xf_pc' = "done"
    /\ xf_last' = NoTransfer
    /\ UNCHANGED <<xf_tree, xf_dirs, xf_initial, xf_main, xf_folders, xf_current,
                   xf_remove, xf_faults, xferOthers>>

XferNext ==
    \/ TransferStart \/ TransferFolder \/ TransferMove \/ TransferFolderEnd
    \/ TransferRemove \/ TransferEnd

SpecTransfer == XferInit /\ [][XferNext]_vars

(***************************************************************************)
(* Properties of the normalizer                                            *)
(***************************************************************************)
\* C1: normalize_filename is idempotent: normalizing a key gives the key
\* again.
C1_NormalizeIdempotent ==
    nf_pc = "done" => nf_rekey = nf_key

(***************************************************************************)
(* Properties of the consolidator                                          *)
(***************************************************************************)
\* c and d have the same non-empty leading run of letters and digits
SameLeadingRun(c, d) ==
    \E k \in 1..Len(c) :
        /\ k <= Len(d)
        /\ Prefix(c, k) = Prefix(d, k)
        /\ \A i \in 1..k : IsAlnum(c[i])
        /\ (k = Len(c) \/ ~IsAlnum(c[k + 1]))
        /\ (k = Len(d) \/ ~IsAlnum(d[k + 1]))

\* the observed codes that share the leading run of c
GroupOf(c) == {d \in cp_codes : SameLeadingRun(c, d)}

\* C5 as stated: in a group of more than one code the representative is the
\* longest code and, among the longest, the lexicographically later one.
C5_LongestThenLatest ==
    cp_pc = "done" =>
        \A c \in cp_codes :
            Cardinality(GroupOf(c)) > 1 =>
                /\ c \in DOMAIN cp_mapping
                /\ cp_mapping[c] \in GroupOf(c)
                /\ \A d \in GroupOf(c) :
                       /\ Len(d) <= Len(cp_mapping[c])
                       /\ Len(d) = Len(cp_mapping[c]) => ~StrLess(cp_mapping[c], d)

\* C5 amended: in a group of more than one code the representative is the
\* longest code and, among the longest, the lexicographically earlier one;
\* no code is mapped to a shorter code of its group.
C5_LongestThenEarliest ==
    cp_pc = "done" =>
        \A c \in cp_codes :
            Cardinality(GroupOf(c)) > 1 =>
                /\ c \in DOMAIN cp_mapping
                /\ cp_mapping[c] \in GroupOf(c)
                /\ Len(cp_mapping[c]) >= Len(c)
                /\ \A d \in GroupOf(c) :
                       /\ Len(d) <= Len(cp_mapping[c])
                       /\ Len(d) = Len(cp_mapping[c]) => ~StrLess(d, cp_mapping[c])

\* a group whose two longest codes have the same length has been consolidated
C5_Witness ==
    /\ cp_pc = "done"
    /\ \E c \in cp_codes : \E d \in GroupOf(c) \ {c} :
           /\ Len(c) = Len(d)
           /\ \A e \in GroupOf(c) : Len(e) <= Len(c)
           /\ cp_mapping[d] = c

\* C6: codes are grouped by their leading run of letters and digits; a code
\* alone in its group maps to itself, and the codes of a larger group all map
\* to one representative, which is a member of the group.
C6_GroupRepresentative ==
    cp_pc = "done" =>
        \A c \in cp_codes :
            GroupOf(c) # {} =>
                /\ c \in DOMAIN cp_mapping
                /\ GroupOf(c) = {c} => cp_mapping[c] = c
                /\ cp_mapping[c] \in GroupOf(c)
                /\ \A d \in GroupOf(c) : cp_mapping[d] = cp_mapping[c]

\* a lone code and a group of three codes have been consolidated together
C6_Witness ==
    /\ cp_pc = "done"
    /\ \E c \in cp_codes : GroupOf(c) = {c} /\ cp_mapping[c] = c
    /\ \E c \in cp_codes : Cardinality(GroupOf(c)) >= 2 /\ cp_mapping[c] # c

(***************************************************************************)
(* Properties of the extractor                                             *)
(***************************************************************************)
\* the stem has a character that survives cleaning and is no separator
HasTokenChar(s) == \E i \in 1..Len(s) : IsAlnum(s[i]) \/ s[i] = "."

\* C7 as stated: every non-empty stem gets a brand or a product code.
C7_NonEmptyStemHasIdentity ==
    (ex_pc = "done" /\ ex_stem # <<>>) =>
        (~Falsy(ex_result.name) \/ ~Falsy(ex_result.code))

\* C7 amended: every stem that, without its trailing _v<digits> marker, has
\* at least one letter, digit or dot gets a brand or a product code.
C7_TokenStemHasIdentity ==
    (ex_pc = "done" /\ HasTokenChar(StripVersion(ex_stem))) =>
        (~Falsy(ex_result.name) \/ ~Falsy(ex_result.code))

\* a stem of separators, punctuation and one dot has been given a brand
C7_Witness ==
    /\ ex_pc = "done"
    /\ Len(ex_stem) >= 3
    /\ \A i \in 1..Len(ex_stem) : ~IsAlnum(ex_stem[i])
    /\ HasTokenChar(ex_stem)
    /\ ~Falsy(ex_result.name)

\* the stem is brand-code: a purely alphabetic brand, a hyphen, and a code
\* with at least one digit
IsBrandCode(s, i) ==
    /\ s[i] = "-"
    /\ AllAlpha(Prefix(s, i - 1))
    /\ HasDigit(Suffix(s, i + 1))

\* C8 as stated: a stem brand-code, the brand purely alphabetic and the code
\* with at least one digit, gives exactly that brand and that code.
C8_BrandCodeRecovered ==
    ex_pc = "done" =>
        \A i \in 1..Len(ex_stem) :
            IsBrandCode(ex_stem, i) =>
                /\ ex_result.name = Prefix(ex_stem, i - 1)
                /\ ex_result.code = Suffix(ex_stem, i + 1)

\* C8 amended: a stem brand-code gives exactly that brand and that code when
\* the brand is purely alphabetic and the code is one token (letters, digits
\* and dots only) of at least two characters with at least one digit.
C8_BrandSingleTokenCodeRecovered ==
    ex_pc = "done" =>
        \A i \in 1..Len(ex_stem) :
            (/\ IsBrandCode(ex_stem, i)
             /\ Len(ex_stem) - i >= 2
             /\ \A j \in (i + 1)..Len(ex_stem) :
                    IsAlnum(ex_stem[j]) \/ ex_stem[j] = ".") =>
                /\ ex_result.name = Prefix(ex_stem, i - 1)
                /\ ex_result.code = Suffix(ex_stem, i + 1)
                /\ ex_result.variant = None

\* W-A100 has been parsed
C8_Witness ==
    /\ ex_pc = "done"
    /\ ex_stem = <<"W", "-", "A", "1", "0", "0">>
    /\ ex_result.name = <<"W">>
    /\ ex_result.code = <<"A", "1", "0", "0">>

\* C9: with at least three tokens, the first purely alphabetic, the second
\* with a letter and a digit, the third all digits, the brand is the first
\* token, the code is the other tokens joined with hyphens, and there is no
\* variant, also when the last token is one character.
C9_SpecialThreeTokenCase ==
    ex_pc = "done" =>
        LET parts == Tokens(Clean(StripVersion(ex_stem)))
        IN  (/\ Len(parts) >= 3
             /\ AllAlpha(parts[1])
             /\ HasAlpha(parts[2]) /\ HasDigit(parts[2])
             /\ AllDigits(parts[3])) =>
                /\ ex_result.name = parts[1]
                /\ ex_result.code = Join(Tail(parts), <<"-">>)
                /\ ex_result.variant = None

\* W-U2-4 has been parsed: the one-character last token stays in the code
C9_Witness ==
    /\ ex_pc = "done"
    /\ ex_stem = <<"W", "-", "U", "2", "-", "4">>
    /\ ex_result = [name |-> <<"W">>, code |-> <<"U", "2", "-", "4">>, variant |-> None]

(***************************************************************************)
(* Properties of the collision resolver and the folder materializer        *)
(***************************************************************************)
\* the keys of the two filenames meet under one of the four comparisons
\* {standard, alpha-numeric} x {standard, alpha-numeric}
KeysMeet(new, existing) ==
    \E k1 \in {normalize_filename(new), normalize_filename_with_alpha_numeric(new)} :
    \E k2 \in {normalize_filename(existing),
               normalize_filename_with_alpha_numeric(existing)} : k1 = k2

\* a step that has processed one file found in the tree
PlacementStep ==
    /\ org_pc = "place"
    /\ work # <<>>
    /\ work' = Tail(work)
    /\ last'.src # None

\* C2: when the destination folder of the incoming file holds a file whose
\* key meets the incoming file's key under one of the four comparisons, the
\* step detects such a file and, unless the move into Old Images raises, the
\* detected file is at Old Images/<category>/<stem>_replaced_<timestamp><ext>
\* of the product folder and no longer in the destination folder when the
\* incoming file has been placed.
C2_ExistingVariantQuarantined ==
    [][PlacementStep =>
        LET folder == last'.target_folder \o last'.category
            old_images == last'.target_folder \o <<D_OldImages>> \o last'.category
            held == {e \in FilesIn(tree, folder) :
                        KeysMeet(Head(work).filename, NameOf(e.path))}
        IN  held # {} =>
               \E e \in held :
                  /\ last'.existing = e.path
                  /\ last'.quarantine \in {"moved", "failed"}
                  /\ last'.quarantine = "moved" =>
                        /\ [path |-> ReplacedPath(e.path, old_images, now),
                            id |-> e.id] \in tree'
                        /\ ~\E f \in FilesIn(tree', folder) : f.id = e.id]_vars

\* a file spelled otherwise than the incoming one has been moved from the
\* destination folder into Old Images and the incoming file is in its place
C2_Witness ==
    /\ last.quarantine = "moved"
    /\ last.placement = "moved"
    /\ NameOf(last.existing) # last.filename
    /\ last.final_destination \in PathsOf(tree)
    /\ last.existing \notin PathsOf(tree)
    /\ \E e \in tree :
          /\ DirOf(e.path) = last.target_folder \o <<D_OldImages>> \o last.category
          /\ e.id = last.existing

\* C3: every file of the tree at the start of the run is somewhere in the
\* tree at every moment of the run and after it.
C3_NoFileLost ==
    \A id \in initial : \E e \in tree : e.id = id

\* the files collected for a brand
BrandFiles(brand) ==
    UNION {{brand_files[i].files[j] : j \in 1..Len(brand_files[i].files)} :
              i \in {k \in 1..Len(brand_files) : brand_files[k].brand = brand}}

\* C10: a file the run has moved, for whose stem the extractor gives a brand
\* and a product code, is at <brand>/<code'>/<category>/<filename>, code'
\* the consolidator's representative of that product code among the product
\* codes the extractor gives for the stems of the brand's files.
C10_PlacedUnderExtractorCode ==
    last.placement = "moved" =>
        LET parsed == extract_name_code_variant(splitext(last.filename).base)
            codes == {c \in {extract_name_code_variant(splitext(f).base).code :
                                f \in BrandFiles(parsed.name)} : ~Falsy(c)}
            code_mapping == consolidate_product_codes(codes)
            representative == IF parsed.code \in DOMAIN code_mapping
                              THEN code_mapping[parsed.code]
                              ELSE parsed.code
        IN  (~Falsy(parsed.name) /\ ~Falsy(parsed.code)) =>
                last.final_destination =
                    <<parsed.name, representative>>
                        \o get_file_category(last.filename) \o <<last.filename>>

(***************************************************************************)
(* Claims on the two entry points of the normalizer                        *)
(***************************************************************************)
\* the stem the conversion looks at: the name without its extension and
\* without its version marker
ConvertedStem(filename) == StripVersion(splitext(filename).base)

\* the last character of the stem is a letter with a separator before it
LetterAfterSeparator(stem) ==
    /\ Len(stem) >= 2
    /\ IsAlpha(stem[Len(stem)])
    /\ IsSep(stem[Len(stem) - 1])

\* C13: a filename whose stem does not end in a letter preceded by a
\* separator gets the same key from normalize_filename_with_alpha_numeric
\* as from normalize_filename
C13_AlphaOnlyAfterSeparator ==
    (nf_pc = "done" /\ ~LetterAfterSeparator(ConvertedStem(nf_filename)))
        => nf_alpha = nf_key

\* C15: the key is a lowercase stem without separators followed by the
\* lowercased extension, and the key of stem + version marker + extension
\* is the key of stem + extension, for every stem and extension that
\* os.path.splitext tells apart
C15_VersionMarkerIgnored ==
    nf_pc = "done" =>
        /\ \E k \in 0..Len(nf_key) :
              /\ \A i \in 1..k : ~IsSep(nf_key[i]) /\ nf_key[i] = ToLower(nf_key[i])
              /\ Suffix(nf_key, k + 1) = Lower(splitext(nf_filename).ext)
        /\ \A s \in MarkedStems, m \in Markers \ {<<>>}, e \in Exts :
              (nf_filename = s \o m \o e /\ splitext(s \o e).ext = e)
                  => nf_key = normalize_filename(s \o e)

(***************************************************************************)
(* Claims on the quarantine and on the folders of a run                    *)
(***************************************************************************)
\* the path lies in an Old Images directory
InOldImages(path) == \E i \in 1..(Len(path) - 1) : path[i] = D_OldImages

\* C16: a file that is inside an Old Images directory when the run starts
\* is at the same path, with the same content, in every state of the run
C16_QuarantineUntouched ==
    \A q \in initial :
        InOldImages(q) => \E e \in tree : e.id = q /\ e.path = q

\* C14: find_existing_file_variant finds a file exactly when a file of the
\* destination folder and the incoming filename have a key in common under
\* one of the four comparisons, and what it finds is such a file
C14_VariantIffKeysMeet ==
    [][PlacementStep =>
          LET folder == last'.target_folder \o last'.category
              matching == {e.path : e \in {f \in FilesIn(tree, folder) :
                                             KeysMeet(last'.filename, NameOf(f.path))}}
          IN  /\ (last'.variant # None) <=> (matching # {})
              /\ last'.variant # None => last'.variant \in matching]_vars

\* W-1.jpg arrives where W-A.jpg is, found through the alpha-numeric key,
\* and the two names match in the other direction as well
C14_Witness ==
    /\ last.filename = F_W1_jpg
    /\ last.variant # None
    /\ NameOf(last.variant) = F_WA_jpg
    /\ normalize_filename(F_W1_jpg) # normalize_filename(F_WA_jpg)
    /\ KeysMeet(F_WA_jpg, F_W1_jpg)

\* C20: when no file of the destination folder has a key in common with the
\* incoming file and no file is at the destination path, then, unless the
\* move raises, the step moves the incoming file to
\* <target folder>/<category>/<its own name>, quarantines nothing and
\* leaves every other file of the destination folder as it was
C20_PlainMoveWhenFree ==
    [][PlacementStep =>
          LET filename == Head(work).filename
              folder == last'.target_folder \o get_file_category(filename)
              destination == folder \o <<filename>>
              held == {e \in FilesIn(tree, folder) : KeysMeet(filename, NameOf(e.path))}
              incoming == CHOOSE e \in tree : e.path = last'.src
          IN  (held = {} /\ destination \notin PathsOf(tree)
                  /\ last'.placement # "failed") =>
                 /\ last'.existing = None
                 /\ last'.quarantine = "none"
                 /\ {e \in tree' : InOldImages(e.path)}
                        \subseteq {e \in tree : InOldImages(e.path)}
                 /\ FilesIn(tree', folder)
                        = FilesIn(tree, folder) \cup {[path |-> destination, id |-> incoming.id]}
                 /\ tree' \ FilesIn(tree', folder)
                        = (tree \ {incoming}) \ FilesIn(tree, folder)]_vars

\* a file has been moved, nothing quarantined, into a folder that held and
\* still holds a file of another key
C20_Witness ==
    /\ last.placement = "moved"
    /\ last.existing = None
    /\ last.quarantine = "none"
    /\ last.final_destination \in PathsOf(tree)
    /\ \E e \in FilesIn(tree, DirOf(last.final_destination)) :
          /\ e.path # last.final_destination
          /\ ~KeysMeet(last.filename, NameOf(e.path))

\* the directory holds neither a file nor a directory
IsEmptyDirectory(t, ds, d) ==
    /\ ~\E e \in t : DirOf(e.path) = d
    /\ ~\E c \in ds : Len(c) = Len(d) + 1 /\ Prefix(c, Len(d)) = d

\* the directory is an Old Images directory or lies in one
InOldImagesSubtree(d) == \E i \in 1..Len(d) : d[i] = D_OldImages

\* C17: when the organize run has ended, either no directory outside the
\* Old Images subtrees is empty or the run has returned False
C17_NoEmptyFolderOrFailure ==
    org_pc = "done" =>
        \/ \A d \in dirs : InOldImagesSubtree(d) \/ ~IsEmptyDirectory(tree, dirs, d)
        \/ org_result = FALSE

(***************************************************************************)
(* Claims on the bucketing stage                                           *)
(***************************************************************************)
\* a turn of the loop of process_files in which resolve_conflict has
\* renamed a chain to its end
ConflictStep ==
    /\ sp_pc = "move"
    /\ sp_queue # <<>>
    /\ sp_queue' = Tail(sp_queue)
    /\ sp_last'.chain # <<>>
    /\ ~sp_last'.raised

\* the incoming file and the files of its destination directory that have
\* the normalized key of the incoming file's name there, before the step
SameKeyFiles ==
    {e \in sp_tree : e.path = Head(sp_queue)}
        \cup {e \in FilesIn(sp_tree, DirOf(sp_last'.dest)) :
                normalize_filename(NameOf(e.path))
                    = normalize_filename(NameOf(sp_last'.dest))}

\* C11: when the files that share the incoming file's normalized key have
\* pairwise different modification times, resolve_conflict leaves the
\* k-th oldest of them under a name that ends in _v<k>
C11_SuffixesInTimestampOrder ==
    [][ConflictStep =>
          ((\A m, o \in SameKeyFiles : m # o => m.mtime # o.mtime) =>
              \A m \in SameKeyFiles :
                  \E e \in sp_tree' :
                      /\ e.id = m.id
                      /\ VersionSuffix(splitext(NameOf(e.path)).base)
                            = S_v \o Str(1 + Cardinality({o \in SameKeyFiles :
                                                            o.mtime < m.mtime})))]_vars

\* C12: the chain resolve_conflict builds is made of the incoming file and
\* of the files of the destination directory that share its normalized
\* key, and of no other file
C12_ChainIsSameKeyFiles ==
    [][ConflictStep =>
          {sp_last'.chain[k] : k \in DOMAIN sp_last'.chain} = SameKeyFiles]_vars

\* C18: a move that raises does not end the run while files are left to
\* process
C18_RunGoesOnAfterFailedMove == ~(sp_pc = "raised" /\ sp_queue # <<>>)

(***************************************************************************)
(* Claims on the pipeline                                                  *)
(***************************************************************************)
\* run_script finds no staging folder: False, exit value 1, nothing changed
MissingStagingInPipeline ==
    (/\ pl_pc = "organize"
     /\ org_pc = "off"
     /\ pl_mode # "organize.py"
     /\ <<D_Staging>> \notin sp_dirs)
        => (/\ pl_pc' = "done"
            /\ pl_organize' = FALSE
            /\ pl_result' = 1
            /\ UNCHANGED <<sp_tree, sp_dirs, tree, dirs, org_pc>>)

\* organize_webp_files finds no folder: False, nothing changed
MissingStagingInOrganize ==
    (org_pc = "collect" /\ <<D_Staging>> \notin sp_dirs)
        => (/\ org_pc' = "done"
            /\ org_result' = FALSE
            /\ UNCHANGED <<sp_tree, sp_dirs, tree, dirs>>)

\* C19: the organize stage entered through run_script without a staging
\* folder ends at once with run_script returning False and the exit value
\* 1, and organize_webp_files called on a missing folder returns False;
\* in both cases no file and no directory has changed
C19_MissingStagingFails ==
    [][MissingStagingInPipeline /\ MissingStagingInOrganize]_vars

\* merge.py --organize-only has ended on a main folder that has files but
\* no staging folder
C19_Witness ==
    /\ pl_mode = "organize-only"
    /\ pl_pc = "done"
    /\ pl_organize = FALSE
    /\ pl_result = 1
    /\ <<D_Staging>> \notin sp_dirs
    /\ sp_tree # {}
    /\ org_pc = "off"

(***************************************************************************)
(* Properties of the pipeline                                              *)
(***************************************************************************)
\* C21: in a run of the pipeline the organize pass starts only after the
\* split pass has returned; when the split pass raised, the organize pass
\* is never run and the pipeline returns 1; when the split pass returned,
\* with or without the warning about empty directories, the pipeline ends
\* only after the organize pass has run
C21_PassesInOrder ==
    pl_mode \in {"both", "skip-organize"} =>
        /\ org_pc # "off" => (sp_pc = "done" /\ pl_pc # "split")
        /\ sp_pc = "raised" => org_pc = "off"
        /\ (sp_pc = "raised" /\ pl_pc = "done") => pl_result = 1
        /\ (pl_mode = "both" /\ sp_pc = "done" /\ pl_pc = "done") => org_pc = "done"

\* a pipeline that ran the organize pass to its end after a split pass
\* that finished with the warning
C21_Witness ==
    /\ pl_mode = "both"
    /\ pl_pc = "done"
    /\ sp_pc = "done"
    /\ sp_success = FALSE
    /\ org_pc = "done"

StemTokensOf(stem) == Tokens(Clean(StripVersion(stem)))

\* the characters of a name or code without its separators, none for None
Flat(x) == IF x = None THEN <<>> ELSE SelectSeq(x, LAMBDA c : ~IsSep(c))

\* C23: when extract_name_code_variant returns a variant, the stem has
\* more than one token, its last token is one alphanumeric character, the
\* variant is that character, and the returned brand and product code are
\* made of the tokens before the last one only
C23_VariantIsLastSingleToken ==
    (ex_pc = "done" /\ ex_result.variant # None) =>
        LET parts == StemTokensOf(ex_stem)
            n == Len(parts)
        IN  /\ n > 1
            /\ Len(parts[n]) = 1
            /\ IsAlnum(parts[n][1])
            /\ ex_result.variant = parts[n]
            /\ Flat(ex_result.name) \o Flat(ex_result.code)
                  = Flat(Join(Prefix(parts, n - 1), <<"-">>))

\* W-U2_b: the variant b, the brand W and the code U2
C23_Witness ==
    /\ ex_pc = "done"
    /\ ex_stem = <<"W", "-", "U", "2", "_", "b">>
    /\ ex_result.variant = <<"b">>
    /\ ex_result.code = <<"U", "2">>

(***************************************************************************)
(* Properties of a second run                                              *)
(***************************************************************************)
\* C24: when organize_webp_files has run twice on a folder, with no move
\* and no removal failing in either run, every file is after the second
\* run at the path where the first run left it
C24_SecondRunChangesNothing ==
    (org_pc = "done" /\ org_first # <<>> /\ faults = 0) => tree = org_first[1]

(***************************************************************************)
(* Properties of a destination folder                                      *)
(***************************************************************************)
\* the folders that hold no file when the run starts and are no part of
\* an Old Images tree: every file in them has been placed by the run
PlacedInto == {DirOf(e.path) : e \in {f \in tree :
                  /\ ~InOldImages(f.path)
                  /\ \A q \in initial : DirOf(q) # DirOf(f.path)}}

\* C25: in a run in which no move fails, a folder that was empty when the
\* run started never holds two files that are equivalent under the
\* four-way comparison of their keys
C25_NoTwoEquivalentFiles ==
    faults = 0 =>
        \A d \in PlacedInto : \A e1, e2 \in FilesIn(tree, d) :
            (e1 # e2) => ~KeysMeet(NameOf(e1.path), NameOf(e2.path))

\* the files of the chain of the step that are in the tree after it
ChainSurvivors ==
    {e \in sp_tree' : \E k \in DOMAIN sp_last'.chain : e.id = sp_last'.chain[k].id}

\* C26: when resolve_conflict has renamed a chain of N files, the N files
\* are all there afterwards, under names whose version markers are _v1 to
\* _v<N>, one each
C26_ChainNeverOverwritten ==
    [][ConflictStep =>
          /\ Cardinality(ChainSurvivors) = Len(sp_last'.chain)
          /\ {VersionSuffix(splitext(NameOf(e.path)).base) : e \in ChainSurvivors}
                = {S_v \o Str(k) : k \in 1..Len(sp_last'.chain)}]_vars

\* a turn of the loop of process_files in which move_file_safely has
\* returned a path
SafeMoveStep ==
    /\ sp_pc = "move"
    /\ sp_queue # <<>>
    /\ sp_queue' = Tail(sp_queue)
    /\ Head(sp_queue) \in PathsOf(sp_tree)
    /\ Lower(splitext(NameOf(Head(sp_queue))).ext) # S_mov
    /\ ~sp_last'.raised

\* C27: the path move_file_safely returns is the path of the incoming file
\* after the call, and it lies in the directory of the destination that
\* was asked for
C27_ReturnedPathHoldsSource ==
    [][SafeMoveStep =>
          /\ \A s \in sp_tree : s.path = Head(sp_queue) =>
                \E e \in sp_tree' : e.id = s.id /\ e.path = sp_last'.returned
          /\ DirOf(sp_last'.returned) = DirOf(sp_last'.dest)]_vars

(***************************************************************************)
(* Properties of the in-progress flag                                      *)
(***************************************************************************)
\* C28, its first half: while a worker thread of an operation type is
\* between the start and the end of its run, process_status[type]
\* ["running"] is True
C28_FlagTrueWhileRunning ==
    \A w \in Requests : worker[w] = "running" => running[req[w].op]

(***************************************************************************)
(* Properties of the mapping                                               *)
(***************************************************************************)
\* C29 as stated: the keys of the mapping are exactly the observed codes,
\* and the representative of every representative is itself
C29_EveryCodeIsKey ==
    cp_pc = "done" =>
        /\ DOMAIN cp_mapping = cp_codes
        /\ \A c \in DOMAIN cp_mapping :
              /\ cp_mapping[c] \in DOMAIN cp_mapping
              /\ cp_mapping[cp_mapping[c]] = cp_mapping[c]

\* C29 amended: the keys of the mapping are exactly the observed codes
\* that begin with a letter or a digit, and the representative of every
\* representative is itself
C29_EveryCodeWithBaseIsKey ==
    cp_pc = "done" =>
        /\ DOMAIN cp_mapping = {c \in cp_codes : c # <<>> /\ IsAlnum(c[1])}
        /\ \A c \in DOMAIN cp_mapping :
              /\ cp_mapping[c] \in DOMAIN cp_mapping
              /\ cp_mapping[cp_mapping[c]] = cp_mapping[c]

\* a code that begins with a dot has been consolidated together with a
\* group of two codes
C29_Witness ==
    /\ cp_pc = "done"
    /\ <<".", "5">> \in cp_codes
    /\ <<".", "5">> \notin DOMAIN cp_mapping
    /\ \E c \in DOMAIN cp_mapping : cp_mapping[c] # c

(***************************************************************************)
(* Properties of the transfer                                              *)
(***************************************************************************)
\* every file keeps its content, and a file outside the staging folder
\* keeps its path as well
TargetFilesStay ==
    /\ \A e \in xf_tree : \E f \in xf_tree' : f.id = e.id
    /\ \A e \in xf_tree : e.path[1] # D_Staging => e \in xf_tree'

\* a moved file is at the path asked for when nothing was there, and else
\* at the numbered path with the least number at which nothing was there
FirstFreeName ==
    (xf_last'.step = "move" /\ xf_last'.moved) =>
        LET asked == xf_last'.target_path
            taken(p) == p \in PathsOf(xf_tree) \/ p \in xf_dirs'
            numbered(n) == DirOf(asked) \o
                <<splitext(NameOf(asked)).base \o <<"_">> \o Str(n)
                     \o splitext(NameOf(asked)).ext>>
        IN  /\ \E e \in xf_tree' : e.id = xf_last'.item /\ e.path = xf_last'.final_target
            /\ ~taken(asked) => xf_last'.final_target = asked
            /\ taken(asked) =>
                  \E n \in 1..(MaxXferFiles + 1) :
                      /\ xf_last'.final_target = numbered(n)
                      /\ ~taken(numbered(n))
                      /\ \A m \in 1..(n - 1) : taken(numbered(m))

\* a directory that goes is a subfolder of the staging folder, or lies in
\* one, with no file anywhere inside it
RemovedOnlyWhenEmpty ==
    \A d \in xf_dirs \ xf_dirs' :
        /\ Len(d) >= 2
        /\ d[1] = D_Staging
        /\ ~\E e \in xf_tree : IsProperPrefix(d, e.path)

\* C30: no step of a transfer run replaces or loses a file; a file bound
\* for a path that is taken goes to the first free <stem>_<n><ext>; and a
\* source subfolder is removed only when no file is left anywhere in it
C30_NoOverwriteNoEarlyRemoval ==
    [][TargetFilesStay /\ FirstFreeName /\ RemovedOnlyWhenEmpty]_vars

\* W/x.jpg and W/x_1.jpg were there, x.jpg of the subfolder W has gone to
\* W/x_2.jpg and the subfolder has been removed
C30_Witness ==
    /\ xf_pc = "done"
    /\ [path |-> <<D_W, F_x_jpg>>, id |-> <<D_W, F_x_jpg>>] \in xf_tree
    /\ [path |-> <<D_W, F_x1_jpg>>, id |-> <<D_W, F_x1_jpg>>] \in xf_tree
    /\ [path |-> NumberedPath(<<D_W, F_x_jpg>>, 2), id |-> <<D_Staging, D_W, F_x_jpg>>]
          \in xf_tree
    /\ <<D_Staging, D_W>> \notin xf_dirs

====
